---- MODULE Spec2Model ----
(***************************************************************************)
(* Climate Justice Index pipeline: file versioning (src/src/utils.py), the *)
(* Grid Builder (src/etl/h3_dasymetric_interpolation.py), the Dasymetric   *)
(* Aggregator (src/etl/v124_p12345_censo2022.py), the Gravitational Scorer *)
(* (src/etl/v5_cnes.py) and index composition (src/src/pipeline.py,        *)
(* src/main.py).                                                           *)
(*                                                                         *)
(* File names are sequences of tokens: "_", "v" and the decimal digits are *)
(* the characters the version pattern _v\d+$ looks at; any other token     *)
(* stands for a run of characters the pattern does not inspect.  All files *)
(* of one directory share one suffix, which is left out.                   *)
(***************************************************************************)
EXTENDS Integers, Sequences, FiniteSets, TLC

\* ------------------------------------------------------------------ bounds
\* Writes (and so version numbers) one behaviour of SpecVer may make.
MaxSaves == 3
\* Stage runs one behaviour of Spec may start.
MaxRuns == 4
\* Household-count chunk files the Grid Builder's glob may match.
MaxChunks == 2
\* Indicators of CENSUS_LOGIC (taken in its order) the Aggregator's loop covers.
NumCensus == 2
\* Facilities with valid coordinates the registry may hold.
MaxFac == 3
\* Rows of the concatenated household-count chunks (SpecGrid).
MaxDomRows == 3
\* Largest household count of one row (SpecGrid).
MaxQtd == 2
\* Largest value of a census variable of one tract (SpecAgg).
MaxVal == 1
\* Largest number of facilities in the registry (SpecScore).
MaxReg == 4
\* Longest series and largest value given to normalize_minmax (SpecNorm).
MaxSeries == 5
MaxSample == 3

\* ------------------------------------------------------------------ state
VARIABLES
    fs,        \* the output directories: file stem -> content (who wrote it)
    stamp,     \* number of writes so far; the content of the next write
    lastPath,  \* SpecVer: the target the last save_parquet was given
    lastFinal, \* SpecVer: the path get_next_version_path returned for it
    lastFs,    \* SpecVer: the directory as it was when that call was made
    run,       \* Spec: stage runs started so far
    pc,        \* Spec: stage -> position of its script
    err,       \* Spec: the exception that ended the current run, "none" if none
    fsAtStart, \* Spec: the directories as they were when the current run started
    gbChunks,  \* Grid Builder: the chunk files the glob matched ("ok" | "bad")
    scCnes,    \* Scorer: whether cnes_path exists
    scFac,     \* Scorer: facilities left after dropna on the coordinates
    generated, \* Aggregator: generated_files, the keys in insertion order
    diags,     \* diagnostic reports written so far
    compLog,   \* composition: what main.py and pipeline.py logged in this run
    exitCode,  \* composition: exit status of main.py, -1 while it runs
    gridPc,    \* SpecGrid: position of the Grid Builder's computation
    dfBase,    \* SpecGrid: df_base, the hexagon-to-tract crosswalk rows
    dfDom,     \* SpecGrid: df_dom, the concatenated household-count rows
    dfFinal,   \* SpecGrid: df_final
    aggPc,     \* SpecAgg: position of the Aggregator's computation
    indKey,    \* SpecAgg: the indicator of CENSUS_LOGIC being computed
    dfH3,      \* SpecAgg: df_h3, the base metadata table read from disk
    dfCenso,   \* SpecAgg: df_censo, one row per tract of the census CSVs
    dfMerged,  \* SpecAgg: df_merged
    dfHex,     \* SpecAgg: df_hex
    absSeries, \* SpecAgg: abs_series, aligned with df_hex
    normSeries, \* SpecAgg: norm_series, aligned with df_hex
    rawCenso,  \* SpecRaw: df_censo as read from the CSVs, every cell a string or missing
    scorePc,   \* SpecScore: position of the Scorer's computation
    dfCnes,    \* SpecScore: df_cnes after the coordinate cleaning, projected
    coordsH3,  \* SpecScore: the hexagon centroids, projected
    knn,       \* SpecScore: per hexagon, the (index, distance) pairs of tree.query
    scoreAbs,  \* SpecScore: df_h3[col_abs]
    scoreLog,  \* SpecScore: df_h3[col_log]
    scoreNorm, \* SpecScore: df_h3[col_norm]
    nmPc,        \* SpecNorm: before or after the call of normalize_minmax
    nmSeries,    \* SpecNorm: the argument series
    nmWinsorize, \* SpecNorm: the argument winsorize
    nmLimits,    \* SpecNorm: the argument limits
    nmOut,       \* SpecNorm: the returned series
    nmWinsorize2, \* SpecNorm: winsorize of a second call, on the returned series
    nmOut2,      \* SpecNorm: the series the second call returns
    consPc,      \* SpecCons: position in consolidate_inputs / run_h3
    baseTable,   \* SpecCons: the base metadata file (Missing or its rows)
    indFiles,    \* SpecCons: each indicator file (Missing or its table)
    consKey,     \* SpecCons: position of the loop over files_dict
    dfMaster     \* SpecCons: df_master

varsVer == <<lastPath, lastFinal, lastFs>>
varsPipe == <<run, pc, err, fsAtStart, gbChunks, scCnes, scFac, generated, diags,
              compLog, exitCode>>
varsGrid == <<gridPc, dfBase, dfDom, dfFinal>>
varsAgg == <<aggPc, indKey, dfH3, dfCenso, dfMerged, dfHex, absSeries, normSeries, rawCenso>>
varsScore == <<scorePc, dfCnes, coordsH3, knn, scoreAbs, scoreLog, scoreNorm>>
varsNorm == <<nmPc, nmSeries, nmWinsorize, nmLimits, nmOut, nmWinsorize2, nmOut2>>
varsCons == <<consPc, baseTable, indFiles, consKey, dfMaster>>
vars == <<fs, stamp, varsVer, varsPipe, varsGrid, varsAgg, varsScore, varsNorm, varsCons>>

\* ------------------------------------------------- utils.get_next_version_path
Digits == {"0", "1", "2", "3", "4", "5", "6", "7", "8", "9"}

DigitVal(c) ==
    CASE c = "0" -> 0 [] c = "1" -> 1 [] c = "2" -> 2 [] c = "3" -> 3
      [] c = "4" -> 4 [] c = "5" -> 5 [] c = "6" -> 6 [] c = "7" -> 7
      [] c = "8" -> 8 [] c = "9" -> 9

DigitChar(d) ==
    CASE d = 0 -> "0" [] d = 1 -> "1" [] d = 2 -> "2" [] d = 3 -> "3"
      [] d = 4 -> "4" [] d = 5 -> "5" [] d = 6 -> "6" [] d = 7 -> "7"
      [] d = 8 -> "8" [] d = 9 -> "9"

\* int(s) of a digit string.
RECURSIVE IntOf(_)
IntOf(s) ==
    IF s = <<>> THEN 0
    ELSE 10 * IntOf(SubSeq(s, 1, Len(s) - 1)) + DigitVal(s[Len(s)])

\* str(n) of a natural number, as the f-string formats it.
RECURSIVE StrOf(_)
StrOf(n) ==
    IF n < 10 THEN <<DigitChar(n)>>
    ELSE Append(StrOf(n \div 10), DigitChar(n % 10))

\* Length of the longest run of digits that ends the stem.
RECURSIVE TrailingDigits(_)
TrailingDigits(stem) ==
    IF stem = <<>> \/ stem[Len(stem)] \notin Digits THEN 0
    ELSE 1 + TrailingDigits(SubSeq(stem, 1, Len(stem) - 1))

\* re.search(r'_v(\d+)$', stem): the index where the match starts, 0 if none.
\* \d+ must reach the end of the stem and be preceded by "_v", so the group
\* is the whole trailing run of digits.
VersionMatch(stem) ==
    LET k == TrailingDigits(stem)
        n == Len(stem)
    IN  IF k >= 1 /\ n >= k + 2 /\ stem[n - k - 1] = "_" /\ stem[n - k] = "v"
        THEN n - k - 1
        ELSE 0

\* match.group(1) and stem[:match.start()].
VersionOf(stem) == IntOf(SubSeq(stem, VersionMatch(stem) + 2, Len(stem)))
BaseNameOf(stem) == SubSeq(stem, 1, VersionMatch(stem) - 1)

\* f"{base_name}_v{next_version}"
Versioned(base, n) == base \o <<"_", "v">> \o StrOf(n)

\* The while-True loop: the first free slot counting up from `from`.  Among
\* Cardinality(files) + 1 candidates one is free, so the loop ends there.
FirstFree(files, base, from) ==
    LET cand == from .. (from + Cardinality(files))
        n == CHOOSE i \in cand :
                 /\ Versioned(base, i) \notin files
                 /\ \A j \in from .. (i - 1) : Versioned(base, j) \in files
    IN  Versioned(base, n)

\* A plausible slip: the next version is taken without looking for a free slot.
FirstFreeNoLoop(files, base, from) == Versioned(base, from)

FreeSlot(files, base, from) == FirstFree(files, base, from)

\* get_next_version_path(path), `files` being the paths that exist.
GetNextVersionPath(files, path) ==
    IF path \notin files
    THEN IF VersionMatch(path) = 0 THEN Versioned(path, 1) ELSE path
    ELSE IF VersionMatch(path) # 0
         THEN FreeSlot(files, BaseNameOf(path), VersionOf(path) + 1)
         ELSE FreeSlot(files, path, 1)

Files == DOMAIN fs

Stages == {"gb", "agg", "sc", "comp"}

\* gbChunks before the glob has run.
Unread == <<"unread">>

\* df.to_parquet(p): creates or replaces the file at p.
WriteFile(f, p, content) == [q \in (DOMAIN f) \cup {p} |-> IF q = p THEN content ELSE f[q]]

\* ------------------------------------------------------------ SpecVer
\* utils.save_parquet on its own: targets and directory contents drawn from
\* small sets.
VerTargets ==
    { <<"d">>, <<"d", "_", "v", "1">>, <<"d", "_", "v", "2">>,
      <<"d", "_", "v", "0", "1">>, <<"d", "_", "v", "9">>, <<"d", "v", "1">> }

VerInitial ==
    { <<"d">>, <<"d", "_", "v", "1">>, <<"d", "_", "v", "2">>, <<"d", "_", "v", "9">> }

VerIdle == lastPath = <<>> /\ lastFinal = <<>> /\ lastFs = <<>>

PipeIdle ==
    /\ run = 0
    /\ pc = [s \in Stages |-> "idle"]
    /\ err = "none"
    /\ fsAtStart = <<>>
    /\ gbChunks = Unread
    /\ scCnes = FALSE
    /\ scFac = 0
    /\ generated = <<>>
    /\ diags = {}
    /\ compLog = {}
    /\ exitCode = -1

GridIdle == gridPc = "off" /\ dfBase = <<>> /\ dfDom = <<>> /\ dfFinal = <<>>

AggIdle ==
    /\ aggPc = "off"
    /\ indKey = ""
    /\ dfH3 = <<>>
    /\ dfCenso = <<>>
    /\ dfMerged = <<>>
    /\ dfHex = <<>>
    /\ absSeries = <<>>
    /\ normSeries = <<>>
    /\ rawCenso = <<>>

ScoreIdle ==
    /\ scorePc = "off"
    /\ dfCnes = <<>>
    /\ coordsH3 = <<>>
    /\ knn = <<>>
    /\ scoreAbs = <<>>
    /\ scoreLog = <<>>
    /\ scoreNorm = <<>>

ConsIdle ==
    /\ consPc = "off"
    /\ baseTable = <<>>
    /\ indFiles = <<>>
    /\ consKey = 0
    /\ dfMaster = <<>>

NormIdle ==
    /\ nmPc = "off"
    /\ nmSeries = <<>>
    /\ nmWinsorize = FALSE
    /\ nmLimits = <<>>
    /\ nmOut = <<>>
    /\ nmWinsorize2 = FALSE
    /\ nmOut2 = <<>>

InitVer ==
    /\ \E S \in SUBSET VerInitial : fs = [p \in S |-> 0]
    /\ stamp = 0
    /\ lastPath = <<>>
    /\ lastFinal = <<>>
    /\ lastFs = fs
    /\ PipeIdle
    /\ GridIdle
    /\ AggIdle
    /\ ScoreIdle
    /\ NormIdle
    /\ ConsIdle

\* save_parquet(df, path)
SaveParquet(path) ==
    /\ stamp < MaxSaves
    /\ LET final == GetNextVersionPath(Files, path)
       IN  /\ fs' = WriteFile(fs, final, stamp + 1)
           /\ lastFinal' = final
    /\ stamp' = stamp + 1
    /\ lastPath' = path
    /\ lastFs' = fs
    /\ UNCHANGED <<varsPipe, varsGrid, varsAgg, varsScore, varsNorm, varsCons>>

NextVer == \E path \in VerTargets : SaveParquet(path)

SpecVer == InitVer /\ [][NextVer]_vars

\* ------------------------------------------------------------ configuration
\* cfg.FILES_H3["base_metadata"], cfg.FILES_H3[key], cfg.FILES['output']['h3_final']:
\* none of the configured stems ends in _v<digits>.
BasePath == <<"br_h3_res9">>
OutPath == <<"br_h3_res9_ijc">>
\* The slip of giving every indicator the same output file.
IndPathShared(key) == <<"br_h3_ind">>

IndPath(key) == <<"br_h3_" \o key>>

\* The keys of CENSUS_LOGIC, in its order, and the ones the model's loop covers.
CensusKeys == <<"v1", "v2", "v4", "p1", "p2", "p3", "p4", "p5">>
AggKeys == SubSeq(CensusKeys, 1, NumCensus)

\* tree.query(coords_h3, k=3)
NeighboursK == 3

Range(q) == {q[i] : i \in DOMAIN q}

\* utils.save_parquet(df, path) on directory f.
SaveParquetTo(f, path, content) == WriteFile(f, GetNextVersionPath(DOMAIN f, path), content)

\* What a run writes: the stage, the run it belongs to and the table written.
Content(s, what) == [by |-> s, run |-> run, what |-> what]


\* ------------------------------------------------------------ stage runs
Running == \E s \in Stages : pc[s] \notin {"idle", "done", "failed"}

FirstLabel(s) ==
    CASE s = "gb" -> "load_base"
      [] s = "agg" -> "read_csv"
      [] s = "sc" -> "read_h3"
      [] s = "comp" -> "consolidate"

\* The user launches one script; the scripts are run one at a time.
Start(s) ==
    /\ ~Running
    /\ run < MaxRuns
    /\ run' = run + 1
    /\ pc' = [t \in Stages |-> IF t = s THEN FirstLabel(s) ELSE "idle"]
    /\ err' = "none"
    /\ fsAtStart' = fs
    /\ gbChunks' = Unread
    /\ scCnes' = FALSE
    /\ scFac' = 0
    /\ generated' = <<>>
    /\ compLog' = IF s = "comp" THEN {"start"} ELSE {}
    /\ exitCode' = -1
    /\ UNCHANGED <<fs, stamp, diags, varsVer, varsGrid, varsAgg, varsScore, varsNorm, varsCons>>

\* An exception nobody catches ends the script.
Raise(s, e) ==
    /\ pc' = [pc EXCEPT ![s] = "failed"]
    /\ err' = e

Goto(s, label) == pc' = [pc EXCEPT ![s] = label]

\* ------------------------------------------------------------ Grid Builder
\* pd.read_parquet(path_v1): the raw crosswalk is there or not.
GBLoadBase ==
    /\ pc["gb"] = "load_base"
    /\ \E present \in BOOLEAN :
          IF present THEN Goto("gb", "load_chunks") /\ UNCHANGED err
          ELSE Raise("gb", "FileNotFoundError")
    /\ UNCHANGED <<fs, stamp, varsVer, varsGrid, varsAgg, varsScore, varsNorm, varsCons, run, fsAtStart, gbChunks, scCnes, scFac,
                   generated, diags, compLog, exitCode>>

ChunkLists == UNION {[1 .. n -> {"ok", "bad"}] : n \in 0 .. MaxChunks}

\* The slip of skipping unreadable chunks instead of letting the error out.
ReadChunksSkippingBad(chunks) ==
    IF \A i \in DOMAIN chunks : chunks[i] = "bad" THEN "ValueError" ELSE "ok"

\* The glob loop and pd.concat: read_parquet raises on the first unreadable
\* file; pd.concat([]) raises ValueError("No objects to concatenate").
ReadChunksOutcome(chunks) ==
    IF \E i \in DOMAIN chunks : chunks[i] = "bad" THEN "ReadError"
    ELSE IF chunks = <<>> THEN "ValueError"
    ELSE "ok"

GBLoadChunks ==
    /\ pc["gb"] = "load_chunks"
    /\ \E chunks \in ChunkLists :
          /\ gbChunks' = chunks
          /\ IF ReadChunksOutcome(chunks) = "ok"
             THEN Goto("gb", "export") /\ UNCHANGED err
             ELSE Raise("gb", ReadChunksOutcome(chunks))
    /\ UNCHANGED <<fs, stamp, varsVer, varsGrid, varsAgg, varsScore, varsNorm, varsCons, run, fsAtStart, scCnes, scFac,
                   generated, diags, compLog, exitCode>>

\* merge, weights, filter (SpecGrid has the data), then
\* df_final.to_parquet(output_path): written in place.
GBExport ==
    /\ pc["gb"] = "export"
    /\ fs' = WriteFile(fs, BasePath, Content("gb", "base_metadata"))
    /\ stamp' = stamp + 1
    /\ Goto("gb", "done")
    /\ UNCHANGED <<varsVer, varsGrid, varsAgg, varsScore, varsNorm, varsCons, run, err, fsAtStart, gbChunks, scCnes, scFac,
                   generated, diags, compLog, exitCode>>

\* ------------------------------------------------------------ Dasymetric Aggregator
\* The CSV loop swallows every reading error; with no usable CSV df_censo is
\* still None at line 100 and df_censo.shape raises AttributeError.
AggReadCsv ==
    /\ pc["agg"] = "read_csv"
    /\ \E usable \in BOOLEAN :
          IF usable THEN Goto("agg", "read_h3") /\ UNCHANGED err
          ELSE Raise("agg", "AttributeError")
    /\ UNCHANGED <<fs, stamp, varsVer, varsGrid, varsAgg, varsScore, varsNorm, varsCons, run, fsAtStart, gbChunks, scCnes, scFac,
                   generated, diags, compLog, exitCode>>

\* The slip of not depending on the file being there.
BaseGridAssumed(files) == TRUE

\* Whether pd.read_parquet(h3_path) finds the base metadata grid.
BaseGridFound(files) == BasePath \in files

\* df_h3 = pd.read_parquet(h3_path)
AggReadH3 ==
    /\ pc["agg"] = "read_h3"
    /\ IF BaseGridFound(Files) THEN Goto("agg", "loop") /\ UNCHANGED err
       ELSE Raise("agg", "FileNotFoundError")
    /\ UNCHANGED <<fs, stamp, varsVer, varsGrid, varsAgg, varsScore, varsNorm, varsCons, run, fsAtStart, gbChunks, scCnes, scFac,
                   generated, diags, compLog, exitCode>>

\* A try/finally around the loop would still reach the report.
AggOnErrorFinally == "diag"

\* The indicator loop is not guarded: an exception in it ends the script.
AggOnError == "failed"

\* One iteration of `for ind_key, logic in CENSUS_LOGIC.items()`: ratio,
\* normalisation, utils.save_parquet (which may raise), generated_files[ind_key].
AggLoop ==
    /\ pc["agg"] = "loop"
    /\ Len(generated) < Len(AggKeys)
    /\ LET key == AggKeys[Len(generated) + 1]
       IN  \E ok \in BOOLEAN :
              IF ok
              THEN /\ fs' = SaveParquetTo(fs, IndPath(key), Content("agg", key))
                   /\ stamp' = stamp + 1
                   /\ generated' = Append(generated, key)
                   /\ UNCHANGED <<pc, err>>
              ELSE /\ Goto("agg", AggOnError)
                   /\ err' = "OSError"
                   /\ UNCHANGED <<fs, stamp, generated>>
    /\ UNCHANGED <<varsVer, varsGrid, varsAgg, varsScore, varsNorm, varsCons, run, fsAtStart, gbChunks, scCnes, scFac, diags,
                   compLog, exitCode>>

AggLoopEnd ==
    /\ pc["agg"] = "loop"
    /\ Len(generated) = Len(AggKeys)
    /\ Goto("agg", "diag")
    /\ UNCHANGED <<fs, stamp, varsVer, varsGrid, varsAgg, varsScore, varsNorm, varsCons, run, err, fsAtStart, gbChunks, scCnes, scFac,
                   generated, diags, compLog, exitCode>>

\* with open(DIAGNOSTIC_TXT, 'w'): one block per entry of generated_files.
AggDiag ==
    /\ pc["agg"] = "diag"
    /\ diags' = diags \cup {[stage |-> "agg", run |-> run, covers |-> Range(generated)]}
    /\ Goto("agg", "done")
    /\ UNCHANGED <<fs, stamp, varsVer, varsGrid, varsAgg, varsScore, varsNorm, varsCons, run, err, fsAtStart, gbChunks, scCnes, scFac,
                   generated, compLog, exitCode>>

\* ------------------------------------------------------------ Gravitational Scorer
\* df_h3 = pd.read_parquet(h3_path)
ScReadH3 ==
    /\ pc["sc"] = "read_h3"
    /\ IF BaseGridFound(Files) THEN Goto("sc", "read_cnes") /\ UNCHANGED err
       ELSE Raise("sc", "FileNotFoundError")
    /\ UNCHANGED <<fs, stamp, varsVer, varsGrid, varsAgg, varsScore, varsNorm, varsCons, run, fsAtStart, gbChunks, scCnes, scFac,
                   generated, diags, compLog, exitCode>>

\* if not cnes_path.exists(): raise FileNotFoundError
ScReadCnes ==
    /\ pc["sc"] = "read_cnes"
    /\ \E present \in BOOLEAN :
          /\ scCnes' = present
          /\ IF present THEN Goto("sc", "query") /\ UNCHANGED err
             ELSE Raise("sc", "FileNotFoundError")
    /\ UNCHANGED <<fs, stamp, varsVer, varsGrid, varsAgg, varsScore, varsNorm, varsCons, run, fsAtStart, gbChunks, scFac,
                   generated, diags, compLog, exitCode>>

\* The slip of scoring an empty registry (every accessibility 0) instead of
\* failing.
QueryOutcomeEmptyOk(n) ==
    IF n = 0 THEN "ok"
    ELSE IF n < NeighboursK THEN "IndexError"
    ELSE "ok"

\* The slip of using the placeholder neighbours of a short registry.
QueryOutcomePadded(n) == IF n = 0 THEN "ValueError" ELSE "ok"

\* cKDTree(coords_cnes) on no point raises ValueError; tree.query(k=3) on fewer
\* than 3 points returns the index n for the missing neighbours and
\* capacities[indices] raises IndexError.
QueryOutcome(n) ==
    IF n = 0 THEN "ValueError"
    ELSE IF n < NeighboursK THEN "IndexError"
    ELSE "ok"

ScQuery ==
    /\ pc["sc"] = "query"
    /\ \E n \in 0 .. MaxFac :
          /\ scFac' = n
          /\ IF QueryOutcome(n) = "ok" THEN Goto("sc", "export") /\ UNCHANGED err
             ELSE Raise("sc", QueryOutcome(n))
    /\ UNCHANGED <<fs, stamp, varsVer, varsGrid, varsAgg, varsScore, varsNorm, varsCons, run, fsAtStart, gbChunks, scCnes,
                   generated, diags, compLog, exitCode>>

\* df_export.to_parquet(output_path, index=False): written in place.
ScExport ==
    /\ pc["sc"] = "export"
    /\ fs' = WriteFile(fs, IndPath("v5"), Content("sc", "v5"))
    /\ stamp' = stamp + 1
    /\ Goto("sc", "diag")
    /\ UNCHANGED <<varsVer, varsGrid, varsAgg, varsScore, varsNorm, varsCons, run, err, fsAtStart, gbChunks, scCnes, scFac,
                   generated, diags, compLog, exitCode>>

ScDiag ==
    /\ pc["sc"] = "diag"
    /\ diags' = diags \cup {[stage |-> "sc", run |-> run, covers |-> {"v5"}]}
    /\ Goto("sc", "done")
    /\ UNCHANGED <<fs, stamp, varsVer, varsGrid, varsAgg, varsScore, varsNorm, varsCons, run, err, fsAtStart, gbChunks, scCnes, scFac,
                   generated, compLog, exitCode>>

\* ------------------------------------------------------------ index composition
\* The indicator files consolidate_inputs finds at the configured paths.
FoundIndicators(files) == {k \in Range(AggKeys) \cup {"v5"} : IndPath(k) \in files}

\* run_h3: consolidate_inputs.  Without the base file it logs and returns None,
\* and run_h3 logs "No data found" and returns.  A found indicator file that
\* cannot be read makes pd.read_parquet raise.
CompConsolidate ==
    /\ pc["comp"] = "consolidate"
    /\ IF ~BaseGridFound(Files)
       THEN /\ compLog' = compLog \cup {"base_not_found", "no_data"}
            /\ Goto("comp", "run_return")
            /\ UNCHANGED err
       ELSE \E readable \in BOOLEAN :
               /\ readable \/ FoundIndicators(Files) # {}
               /\ IF readable
                  THEN Goto("comp", "save") /\ UNCHANGED <<err, compLog>>
                  ELSE /\ Goto("comp", "run_except")
                       /\ err' = "ReadError"
                       /\ UNCHANGED compLog
    /\ UNCHANGED <<fs, stamp, varsVer, varsGrid, varsAgg, varsScore, varsNorm, varsCons, run, fsAtStart, gbChunks, scCnes, scFac,
                   generated, diags, exitCode>>

\* run_h3: calculate_simple_cji, the log diagnostics, utils.save_parquet.
CompSave ==
    /\ pc["comp"] = "save"
    /\ \E ok \in BOOLEAN :
          IF ok
          THEN /\ fs' = SaveParquetTo(fs, OutPath, Content("comp", "h3_final"))
               /\ stamp' = stamp + 1
               /\ compLog' = compLog \cup {"completed"}
               /\ Goto("comp", "run_return")
               /\ UNCHANGED err
          ELSE /\ Goto("comp", "run_except")
               /\ err' = "OSError"
               /\ UNCHANGED <<fs, stamp, compLog>>
    /\ UNCHANGED <<varsVer, varsGrid, varsAgg, varsScore, varsNorm, varsCons, run, fsAtStart, gbChunks, scCnes, scFac,
                   generated, diags, exitCode>>

\* pipeline.run: except Exception as e: logging.error(...); run() then returns.
CompRunExcept ==
    /\ pc["comp"] = "run_except"
    /\ compLog' = compLog \cup {"critical_failure"}
    /\ Goto("comp", "run_return")
    /\ UNCHANGED <<fs, stamp, varsVer, varsGrid, varsAgg, varsScore, varsNorm, varsCons, run, err, fsAtStart, gbChunks, scCnes, scFac,
                   generated, diags, exitCode>>

\* main(): pipeline.run() returned, so success is logged and the process ends
\* with status 0; had it raised, logger.critical and sys.exit(1).
CompMainEnd ==
    /\ pc["comp"] \in {"run_return", "run_raise"}
    /\ IF pc["comp"] = "run_raise"
       THEN compLog' = compLog \cup {"unhandled"} /\ exitCode' = 1
       ELSE compLog' = compLog \cup {"success"} /\ exitCode' = 0
    /\ Goto("comp", "done")
    /\ UNCHANGED <<fs, stamp, varsVer, varsGrid, varsAgg, varsScore, varsNorm, varsCons, run, err, fsAtStart, gbChunks, scCnes, scFac,
                   generated, diags>>

\* ------------------------------------------------------------ Spec
Init ==
    /\ fs = <<>>
    /\ stamp = 0
    /\ VerIdle
    /\ PipeIdle
    /\ GridIdle
    /\ AggIdle
    /\ ScoreIdle
    /\ NormIdle
    /\ ConsIdle

Next ==
    \/ \E s \in Stages : Start(s)
    \/ GBLoadBase \/ GBLoadChunks \/ GBExport
    \/ AggReadCsv \/ AggReadH3 \/ AggLoop \/ AggLoopEnd \/ AggDiag
    \/ ScReadH3 \/ ScReadCnes \/ ScQuery \/ ScExport \/ ScDiag
    \/ CompConsolidate \/ CompSave \/ CompRunExcept \/ CompMainEnd

Spec == Init /\ [][Next]_vars

\* ------------------------------------------------------------ two scripts at once
\* The Aggregator and the Scorer are separate scripts: launched together, their
\* steps interleave.  The directories hold, or not, the base grid and results
\* of earlier runs.
OldFile(what) == [by |-> "old", run |-> 0, what |-> what]

ConcInitial ==
    LET pool == {BasePath, Versioned(IndPath(AggKeys[1]), 1), IndPath("v5")}
    IN  {[p \in ps |-> IF p = BasePath THEN [by |-> "gb", run |-> 0, what |-> "base_metadata"]
                       ELSE OldFile("indicator")] : ps \in SUBSET pool}

InitConc ==
    /\ fs \in ConcInitial
    /\ stamp = 0
    /\ run = 1
    /\ pc = [s \in Stages |-> IF s = "agg" THEN FirstLabel("agg")
                              ELSE IF s = "sc" THEN FirstLabel("sc") ELSE "idle"]
    /\ err = "none"
    /\ fsAtStart = fs
    /\ gbChunks = Unread
    /\ scCnes = FALSE
    /\ scFac = 0
    /\ generated = <<>>
    /\ diags = {}
    /\ compLog = {}
    /\ exitCode = -1
    /\ VerIdle
    /\ GridIdle
    /\ AggIdle
    /\ ScoreIdle
    /\ NormIdle
    /\ ConsIdle

NextConc ==
    \/ AggReadCsv \/ AggReadH3 \/ AggLoop \/ AggLoopEnd \/ AggDiag
    \/ ScReadH3 \/ ScReadCnes \/ ScQuery \/ ScExport \/ ScDiag

SpecConc == InitConc /\ [][NextConc]_vars

\* ================================================================ numbers
\* A float is modelled exactly: a rational n/d (d > 0), NaN, or +-infinity.
Rat(n, d) == [k |-> "num", n |-> n, d |-> d]
NaN == [k |-> "nan", n |-> 0, d |-> 1]
Inf(sign) == [k |-> "inf", n |-> sign, d |-> 1]
Zero == Rat(0, 1)
One == Rat(1, 1)

REq(a, b) == a.k = b.k /\ a.n * b.d = b.n * a.d
RAdd(a, b) == Rat(a.n * b.d + b.n * a.d, a.d * b.d)
RMul(a, b) == Rat(a.n * b.n, a.d * b.d)
RScale(a, m) == Rat(a.n * m, a.d)
RLess(a, b) == a.n * b.d < b.n * a.d

\* Integer division a / b as numpy evaluates it on float columns.
FloatDiv(a, b) ==
    IF b # 0 THEN (IF b > 0 THEN Rat(a, b) ELSE Rat(-a, -b))
    ELSE IF a = 0 THEN NaN
    ELSE Inf(IF a > 0 THEN 1 ELSE -1)

RECURSIVE Gcd(_, _)
Gcd(a, b) == IF b = 0 THEN a ELSE Gcd(b, a % b)

\* The same number in lowest terms.
RNorm(a) == LET g == Gcd(a.n, a.d) IN Rat(a.n \div g, a.d \div g)

RSub(a, b) ==
    IF a.k = "num" /\ b.k = "num" THEN RNorm(Rat(a.n * b.d - b.n * a.d, a.d * b.d)) ELSE NaN
RLeq(a, b) == a.n * b.d <= b.n * a.d

\* a / b on floats, as numpy evaluates it.
RQuot(a, b) ==
    IF b.n > 0 THEN RNorm(Rat(a.n * b.d, a.d * b.n))
    ELSE IF b.n < 0 THEN RNorm(Rat(-(a.n * b.d), -(a.d * b.n)))
    ELSE IF a.n = 0 THEN NaN
    ELSE Inf(IF a.n > 0 THEN 1 ELSE -1)

\* ================================================================ normalize_minmax
\* s.min() and s.max() of a non-empty series of numbers
RECURSIVE SeriesMin(_)
SeriesMin(s) ==
    IF Len(s) = 1 THEN s[1]
    ELSE LET m == SeriesMin(Tail(s)) IN IF RLeq(s[1], m) THEN s[1] ELSE m

RECURSIVE SeriesMax(_)
SeriesMax(s) ==
    IF Len(s) = 1 THEN s[1]
    ELSE LET m == SeriesMax(Tail(s)) IN IF RLeq(m, s[1]) THEN s[1] ELSE m

RECURSIVE InsertSorted(_, _)
InsertSorted(x, s) ==
    IF s = <<>> THEN <<x>>
    ELSE IF RLeq(x, Head(s)) THEN <<x>> \o s
    ELSE <<Head(s)>> \o InsertSorted(x, Tail(s))

RECURSIVE SortSeries(_)
SortSeries(s) == IF s = <<>> THEN <<>> ELSE InsertSorted(Head(s), SortSeries(Tail(s)))

\* s.quantile(q), linear interpolation between the two order statistics
\* around position q * (n - 1); q is the pair <<numerator, denominator>>.
Quantile(s, q) ==
    LET v == SortSeries(s)
        pos == q[1] * (Len(s) - 1)
        lo == pos \div q[2]
        frac == Rat(pos % q[2], q[2])
    IN  IF frac.n = 0 THEN v[lo + 1]
        ELSE RNorm(RAdd(v[lo + 1], RMul(frac, RSub(v[lo + 2], v[lo + 1]))))

\* The slip of clipping on one side only.
ClipUpperOnly(s, lower, upper) ==
    [i \in DOMAIN s |-> IF RLess(upper, s[i]) THEN upper ELSE s[i]]

\* s.clip(lower=lower_bound, upper=upper_bound)
Clip(s, lower, upper) ==
    [i \in DOMAIN s |->
        IF RLess(s[i], lower) THEN lower ELSE IF RLess(upper, s[i]) THEN upper ELSE s[i]]

\* lines 62-65: the series the scaling is applied to
Winsorized(series, winsorize, limits) ==
    IF winsorize /\ series # <<>>
    THEN Clip(series, Quantile(series, limits[1]), Quantile(series, limits[2]))
    ELSE series

\* The slip of not subtracting the minimum.
ScaledUnshifted(s) ==
    [i \in DOMAIN s |-> RQuot(s[i], RSub(SeriesMax(s), SeriesMin(s)))]

\* line 75: (s - min_val) / (max_val - min_val)
Scaled(s) ==
    [i \in DOMAIN s |-> RQuot(RSub(s[i], SeriesMin(s)), RSub(SeriesMax(s), SeriesMin(s)))]

\* The slip of leaving the max_val == min_val guard out.
NormalizeUnguarded(series, winsorize, limits) == Scaled(Winsorized(series, winsorize, limits))

\* normalize_minmax(series, winsorize, limits) on a series of numbers.  On an
\* empty series min and max are NaN, the guard is false and the result is the
\* empty series.
NormalizeMinMax(series, winsorize, limits) ==
    LET s == Winsorized(series, winsorize, limits)
    IN  IF s = <<>> THEN <<>>
        ELSE IF REq(SeriesMax(s), SeriesMin(s)) THEN [i \in DOMAIN s |-> Zero]
        ELSE Scaled(s)

\* The default limits of the percentile cut, and a wider cut.
DefaultLimits == <<(<<1, 100>>), (<<99, 100>>)>>
QuartileLimits == <<(<<1, 4>>), (<<3, 4>>)>>

Samples == UNION { [1 .. n -> {Rat(x, 1) : x \in 0 .. MaxSample}] : n \in 0 .. MaxSeries }

InitNorm ==
    /\ fs = <<>>
    /\ stamp = 0
    /\ VerIdle
    /\ PipeIdle
    /\ GridIdle
    /\ AggIdle
    /\ ScoreIdle
    /\ ConsIdle
    /\ nmPc = "call"
    /\ nmSeries \in Samples
    /\ nmWinsorize \in BOOLEAN
    /\ nmLimits \in {DefaultLimits, QuartileLimits}
    /\ nmOut = <<>>
    /\ nmWinsorize2 = FALSE
    /\ nmOut2 = <<>>

NormCall ==
    /\ nmPc = "call"
    /\ nmOut' = NormalizeMinMax(nmSeries, nmWinsorize, nmLimits)
    /\ nmPc' = "returned"
    /\ UNCHANGED <<fs, stamp, varsVer, varsPipe, varsGrid, varsAgg, varsScore, varsCons,
                   nmSeries, nmWinsorize, nmLimits, nmWinsorize2, nmOut2>>

\* A second call, on the series the first one returned, with the same
\* winsorize setting or with none.
NormAgain ==
    /\ nmPc = "returned"
    /\ \E w \in {nmWinsorize, FALSE} :
          /\ nmWinsorize2' = w
          /\ nmOut2' = NormalizeMinMax(nmOut, w, nmLimits)
    /\ nmPc' = "again"
    /\ UNCHANGED <<fs, stamp, varsVer, varsPipe, varsGrid, varsAgg, varsScore, varsCons,
                   nmSeries, nmWinsorize, nmLimits, nmOut>>

NextNorm == NormCall \/ NormAgain

SpecNorm == InitNorm /\ [][NextNorm]_vars

\* ================================================================ Grid Builder data
Hexes == {"h1", "h2"}
Tracts == {"t1", "t2"}
\* Hexagon ids the household chunks may carry; "h3" is in no crosswalk.
DomHexes == <<"h1", "h2", "h3">>

BaseRow(h, t) == [h3_id |-> h, cd_setor |-> t]

\* A crosswalk row whose cd_setor is null (a hexagon outside every tract).
NoTract == "<NA>"

\* Crosswalks: any set of (hexagon, tract) pairs, a hexagon that overlaps two
\* tracts having one row per tract, in a fixed row order.
AllBaseRows ==
    <<BaseRow("h1", "t1"), BaseRow("h1", "t2"), BaseRow("h2", "t1"), BaseRow("h2", "t2")>>

RECURSIVE Pick(_, _)
Pick(q, keep) ==
    IF q = <<>> THEN <<>>
    ELSE (IF Len(q) \in keep THEN Pick(SubSeq(q, 1, Len(q) - 1), keep) \o <<q[Len(q)]>>
          ELSE Pick(SubSeq(q, 1, Len(q) - 1), keep))

CrossWalks == {Pick(AllBaseRows, keep) : keep \in SUBSET (1 .. 4)}

\* Crosswalks in which a hexagon may have no tract.
CrossWalksAny ==
    {Pick(<<BaseRow("h1", "t1"), BaseRow("h1", NoTract), BaseRow("h2", NoTract)>>, keep) :
        keep \in SUBSET (1 .. 3)}

\* The concatenated chunks: up to MaxDomRows rows, listed by hexagon; a hexagon
\* that two chunks cover has two rows.
DomTables ==
    UNION {
      { [i \in 1 .. n |-> [h3_id |-> DomHexes[hx[i]], qtd_dom |-> q[i]]] :
          hx \in {f \in [1 .. n -> 1 .. 3] : \A i \in 1 .. (n - 1) : f[i] <= f[i + 1]},
          q \in [1 .. n -> 0 .. MaxQtd] }
      : n \in 0 .. MaxDomRows }

\* Right rows matching one left row, in the right table's order.
RECURSIVE RowsFor(_, _)
RowsFor(b, dom) ==
    IF dom = <<>> THEN <<>>
    ELSE (IF Head(dom).h3_id = b.h3_id
          THEN <<[h3_id |-> b.h3_id, cd_setor |-> b.cd_setor, qtd_dom |-> Head(dom).qtd_dom]>>
          ELSE <<>>) \o RowsFor(b, Tail(dom))

\* pd.merge(df_base, df_dom, on='h3_id', how='inner')
RECURSIVE Merge(_, _)
Merge(base, dom) ==
    IF base = <<>> THEN <<>>
    ELSE RowsFor(Head(base), dom) \o Merge(Tail(base), dom)

\* The slip of summing over the whole table instead of per tract.
RECURSIVE GrandTotal(_, _)
GrandTotal(rows, t) ==
    IF rows = <<>> THEN 0 ELSE Head(rows).qtd_dom + GrandTotal(Tail(rows), t)

\* groupby('cd_setor')['qtd_dom'].transform('sum'), for the rows of tract t.
RECURSIVE TractTotal(_, _)
TractTotal(rows, t) ==
    IF rows = <<>> THEN 0
    ELSE (IF Head(rows).cd_setor = t THEN Head(rows).qtd_dom ELSE 0)
         + TractTotal(Tail(rows), t)

\* total_dom_setor and peso_dom = qtd_dom / total_dom_setor.  groupby drops
\* the null key, so the transform leaves NaN on the rows without a tract.
WithWeights(rows) ==
    [i \in DOMAIN rows |->
        [h3_id |-> rows[i].h3_id, cd_setor |-> rows[i].cd_setor,
         qtd_dom |-> rows[i].qtd_dom,
         peso_dom |-> IF rows[i].cd_setor = NoTract THEN NaN
                      ELSE FloatDiv(rows[i].qtd_dom, TractTotal(rows, rows[i].cd_setor))]]

\* The slip of leaving the fillna out.
NoFill(rows) == rows

\* df_final['peso_dom'].fillna(0): NaN becomes 0, infinities stay.
FillNa(rows) ==
    [i \in DOMAIN rows |->
        IF rows[i].peso_dom.k = "nan" THEN [rows[i] EXCEPT !.peso_dom = Zero] ELSE rows[i]]

\* The slip of leaving the post-filter out.
KeepEveryRow(rows) == rows

\* df_final[df_final['qtd_dom'] > 0]
RECURSIVE KeepInhabited(_)
KeepInhabited(rows) ==
    IF rows = <<>> THEN <<>>
    ELSE (IF Head(rows).qtd_dom > 0 THEN <<Head(rows)>> ELSE <<>>)
         \o KeepInhabited(Tail(rows))

InitGrid ==
    /\ fs = <<>>
    /\ stamp = 0
    /\ VerIdle
    /\ PipeIdle
    /\ gridPc = "loaded"
    /\ dfBase \in CrossWalks
    /\ dfDom \in DomTables
    /\ dfFinal = <<>>
    /\ AggIdle
    /\ ScoreIdle
    /\ NormIdle
    /\ ConsIdle

\* line 72
GridMerge ==
    /\ gridPc = "loaded"
    /\ dfFinal' = Merge(dfBase, dfDom)
    /\ gridPc' = "merged"
    /\ UNCHANGED <<fs, stamp, varsVer, varsPipe, varsAgg, varsScore, varsNorm, varsCons, dfBase, dfDom>>

\* lines 77-80
GridWeigh ==
    /\ gridPc = "merged"
    /\ dfFinal' = WithWeights(dfFinal)
    /\ gridPc' = "weighed"
    /\ UNCHANGED <<fs, stamp, varsVer, varsPipe, varsAgg, varsScore, varsNorm, varsCons, dfBase, dfDom>>

\* lines 86-87
GridFill ==
    /\ gridPc = "weighed"
    /\ dfFinal' = FillNa(dfFinal)
    /\ gridPc' = "filled"
    /\ UNCHANGED <<fs, stamp, varsVer, varsPipe, varsAgg, varsScore, varsNorm, varsCons, dfBase, dfDom>>

\* lines 90-95: the filter, then the table is persisted.
GridFilter ==
    /\ gridPc = "filled"
    /\ dfFinal' = KeepInhabited(dfFinal)
    /\ gridPc' = "persisted"
    /\ UNCHANGED <<fs, stamp, varsVer, varsPipe, varsAgg, varsScore, varsNorm, varsCons, dfBase, dfDom>>

NextGrid == GridMerge \/ GridWeigh \/ GridFill \/ GridFilter

SpecGrid == InitGrid /\ [][NextGrid]_vars

\* The same script on crosswalks that may carry null tract ids.
InitGridAny ==
    /\ fs = <<>>
    /\ stamp = 0
    /\ VerIdle
    /\ PipeIdle
    /\ gridPc = "loaded"
    /\ dfBase \in CrossWalksAny
    /\ dfDom \in DomTables
    /\ dfFinal = <<>>
    /\ AggIdle
    /\ ScoreIdle
    /\ NormIdle
    /\ ConsIdle

SpecGridAny == InitGridAny /\ [][NextGrid]_vars

\* ================================================================ Aggregator data
\* CENSUS_LOGIC
NumCols(key) ==
    CASE key = "v1" -> <<"v06004_v06001">>
      [] key = "v2" -> <<"v00238">>
      [] key = "v4" -> <<"v00853", "v00855", "v00857">>
      [] key = "p1" -> <<"v01063">>
      [] key = "p2" -> <<"v01031">>
      [] key = "p3" -> <<"v01040", "v01041">>
      [] key = "p4" -> <<"v01318", "v01320">>
      [] key = "p5" -> <<"v01500", "v03000">>

DenCols(key) ==
    CASE key = "v1" -> <<"v06001">>
      [] key = "v2" -> <<"v00001">>
      [] key = "v4" -> <<"v01006">>
      [] key = "p1" -> <<"v01042">>
      [] key = "p2" -> <<"v01006">>
      [] key = "p3" -> <<"v01006">>
      [] key = "p4" -> <<"v01006">>
      [] key = "p5" -> <<"v00001">>

Invert(key) == key # "v1"

\* The indicators SpecAgg computes: the one built on a derived column, a
\* one-numerator one and a two-numerator one.
AggDataKeys == {"v1", "v2", "p3"}

\* The raw columns of REQUIRED_RAW_VARS the indicator reads; the census table
\* of the model carries only these.
RawVars(key) ==
    IF key = "v1" THEN {"v06004", "v06001"}
    ELSE Range(NumCols(key)) \cup Range(DenCols(key))

\* df_censo after the numeric conversion: at most one row per tract.
CensusRows(t, key) == {[cd_setor |-> t, vals |-> f] : f \in [RawVars(key) -> 0 .. MaxVal]}

CensusTables(key) ==
    {<<>>}
    \cup {<<r>> : r \in CensusRows("t1", key) \cup CensusRows("t2", key)}
    \cup {<<r1, r2>> : r1 \in CensusRows("t1", key), r2 \in CensusRows("t2", key)}

\* The base metadata tables SpecAgg reads: what the Grid Builder persists for
\* hexagons of one tract, for a hexagon overlapping two tracts, and for one
\* hexagon per tract.
GridTable(base, dom) == KeepInhabited(FillNa(WithWeights(Merge(base, dom))))

AggGrids ==
    { GridTable(Pick(AllBaseRows, keep),
                <<[h3_id |-> "h1", qtd_dom |-> q1], [h3_id |-> "h2", qtd_dom |-> q2]>>) :
        keep \in {{1, 3}, {1, 2, 3}, {1, 4}}, q1 \in 0 .. MaxQtd, q2 \in 0 .. MaxQtd }

\* lines 108-109: df_censo['v06004_v06001'] = df_censo['v06004'] * df_censo['v06001']
WithIncome(censo) ==
    [i \in DOMAIN censo |->
        IF {"v06004", "v06001"} \subseteq DOMAIN censo[i].vals
        THEN [censo[i] EXCEPT !.vals =
                 [c \in DOMAIN censo[i].vals \cup {"v06004_v06001"} |->
                     IF c = "v06004_v06001"
                     THEN censo[i].vals["v06004"] * censo[i].vals["v06001"]
                     ELSE censo[i].vals[c]]]
        ELSE censo[i]]

RECURSIVE CensoRowsFor(_, _)
CensoRowsFor(g, censo) ==
    IF censo = <<>> THEN <<>>
    ELSE (IF Head(censo).cd_setor = g.cd_setor
          THEN <<[h3_id |-> g.h3_id, cd_setor |-> g.cd_setor, peso_dom |-> g.peso_dom,
                  vals |-> Head(censo).vals]>>
          ELSE <<>>) \o CensoRowsFor(g, Tail(censo))

\* pd.merge(df_h3[['h3_id', 'cd_setor', 'peso_dom']], df_censo, on='cd_setor', how='inner')
RECURSIVE MergeCenso(_, _)
MergeCenso(grid, censo) ==
    IF grid = <<>> THEN <<>>
    ELSE CensoRowsFor(Head(grid), censo) \o MergeCenso(Tail(grid), censo)

\* The slip of leaving the derived income column out of columns_to_weight.
WeightedRawOnly(merged) ==
    [i \in DOMAIN merged |->
        [merged[i] EXCEPT !.vals =
            [c \in DOMAIN merged[i].vals |->
                IF c = "v06004_v06001" THEN Rat(merged[i].vals[c], 1)
                ELSE RScale(merged[i].peso_dom, merged[i].vals[c])]]]

\* df_merged[col] = df_merged[col] * df_merged['peso_dom'], every column
Weighted(merged) ==
    [i \in DOMAIN merged |->
        [merged[i] EXCEPT !.vals =
            [c \in DOMAIN merged[i].vals |-> RScale(merged[i].peso_dom, merged[i].vals[c])]]]

\* Sum of one column over the rows of one hexagon, in row order.
RECURSIVE ColumnSum(_, _, _)
ColumnSum(rows, h, c) ==
    IF rows = <<>> THEN Zero
    ELSE IF Head(rows).h3_id = h
         THEN RAdd(Head(rows).vals[c], ColumnSum(Tail(rows), h, c))
         ELSE ColumnSum(Tail(rows), h, c)

HexOrder == <<"h1", "h2">>

RECURSIVE GroupFrom(_, _)
GroupFrom(rows, k) ==
    IF k > Len(HexOrder) THEN <<>>
    ELSE (IF \E i \in DOMAIN rows : rows[i].h3_id = HexOrder[k]
          THEN <<[h3_id |-> HexOrder[k],
                  vals |-> [c \in DOMAIN rows[1].vals |-> ColumnSum(rows, HexOrder[k], c)]]>>
          ELSE <<>>) \o GroupFrom(rows, k + 1)

\* df_merged.groupby('h3_id')[columns_to_weight].sum().reset_index(): one row
\* per hexagon id, in sorted order.
GroupByHex(rows) == GroupFrom(rows, 1)

\* sum(df_hex[c] for c in cols if c in df_hex.columns)
RECURSIVE SumCols(_, _)
SumCols(vals, cols) ==
    IF cols = <<>> THEN Zero
    ELSE IF Head(cols) \in DOMAIN vals
         THEN RAdd(vals[Head(cols)], SumCols(vals, Tail(cols)))
         ELSE SumCols(vals, Tail(cols))

\* num / den for den > 0
RDiv(a, b) == Rat(a.n * b.d, a.d * b.n)

\* np.where(den > 0, num / den, 0) on one row of values
RatioOf(vals, key) ==
    LET num == SumCols(vals, NumCols(key))
        den == SumCols(vals, DenCols(key))
    IN  IF RLess(Zero, den) THEN RDiv(num, den) ELSE Zero

RECURSIVE RowRatioSum(_, _, _)
RowRatioSum(rows, h, key) ==
    IF rows = <<>> THEN Zero
    ELSE IF Head(rows).h3_id = h
         THEN RAdd(RatioOf(Head(rows).vals, key), RowRatioSum(Tail(rows), h, key))
         ELSE RowRatioSum(Tail(rows), h, key)

\* The average, over the rows of hexagon h, of the rows' own ratios.
MeanOfRowRatios(rows, h, key) ==
    LET s == RowRatioSum(rows, h, key)
    IN  Rat(s.n, s.d * Cardinality({i \in DOMAIN rows : rows[i].h3_id = h}))

\* The slip the docstring warns against: averaging the per-row ratios.
AbsSeriesOfMeans(merged, hex, key) ==
    [i \in DOMAIN hex |-> MeanOfRowRatios(merged, hex[i].h3_id, key)]

\* lines 146-150: num_series, den_series, abs_series
AbsSeries(merged, hex, key) == [i \in DOMAIN hex |-> RatioOf(hex[i].vals, key)]

InitAgg ==
    /\ fs = <<>>
    /\ stamp = 0
    /\ VerIdle
    /\ PipeIdle
    /\ GridIdle
    /\ aggPc = "loaded"
    /\ indKey \in AggDataKeys
    /\ dfH3 \in AggGrids
    /\ dfCenso \in CensusTables(indKey)
    /\ dfMerged = <<>>
    /\ dfHex = <<>>
    /\ absSeries = <<>>
    /\ normSeries = <<>>
    /\ rawCenso = <<>>
    /\ ScoreIdle
    /\ NormIdle
    /\ ConsIdle

AggOthers == <<fs, stamp, varsVer, varsPipe, varsGrid, varsScore, varsNorm, varsCons>>

\* lines 108-120
AggMerge ==
    /\ aggPc = "loaded"
    /\ dfCenso' = WithIncome(dfCenso)
    /\ dfMerged' = MergeCenso(dfH3, dfCenso')
    /\ aggPc' = "merged"
    /\ UNCHANGED <<AggOthers, indKey, dfH3, dfHex, absSeries, normSeries, rawCenso>>

\* lines 123-126
AggWeight ==
    /\ aggPc = "merged"
    /\ dfMerged' = Weighted(dfMerged)
    /\ aggPc' = "weighted"
    /\ UNCHANGED <<AggOthers, indKey, dfH3, dfCenso, dfHex, absSeries, normSeries, rawCenso>>

\* line 130
AggGroup ==
    /\ aggPc = "weighted"
    /\ dfHex' = GroupByHex(dfMerged)
    /\ aggPc' = "grouped"
    /\ UNCHANGED <<AggOthers, indKey, dfH3, dfCenso, dfMerged, absSeries, normSeries, rawCenso>>

\* lines 146-150
AggRatio ==
    /\ aggPc = "grouped"
    /\ absSeries' = AbsSeries(dfMerged, dfHex, indKey)
    /\ aggPc' = "ratio"
    /\ UNCHANGED <<AggOthers, indKey, dfH3, dfCenso, dfMerged, dfHex, normSeries, rawCenso>>

\* The slip of dropping the inversion.
InvertScaleNever(norm, key) == norm

\* The slip of inverting every indicator.
InvertScaleAlways(norm, key) == [i \in DOMAIN norm |-> RSub(One, norm[i])]

\* lines 156-157: if logic['invert']: norm_series = 1.0 - norm_series
InvertScale(norm, key) ==
    IF Invert(key) THEN [i \in DOMAIN norm |-> RSub(One, norm[i])] ELSE norm

\* line 153
AggNormalize ==
    /\ aggPc = "ratio"
    /\ normSeries' = NormalizeMinMax(absSeries, TRUE, DefaultLimits)
    /\ aggPc' = "normalized"
    /\ UNCHANGED <<AggOthers, indKey, dfH3, dfCenso, dfMerged, dfHex, absSeries, rawCenso>>

\* lines 156-168: the inversion, then df_export is assembled and saved.
AggExport ==
    /\ aggPc = "normalized"
    /\ normSeries' = InvertScale(normSeries, indKey)
    /\ aggPc' = "exported"
    /\ UNCHANGED <<AggOthers, indKey, dfH3, dfCenso, dfMerged, dfHex, absSeries, rawCenso>>

NextAgg == AggMerge \/ AggWeight \/ AggGroup \/ AggRatio \/ AggNormalize \/ AggExport

SpecAgg == InitAgg /\ [][NextAgg]_vars

\* -------- the numeric conversion of the raw census table (lines 102-105)
\* A cell read with dtype=str: a string, as its sequence of characters, or
\* missing (NaN).
MissingCell == [na |-> TRUE, text |-> <<>>]
Text(chars) == [na |-> FALSE, text |-> chars]

\* The cells of the model: a missing value, the suppression mark "X", whole
\* numbers, and a number written with a decimal comma.
RawCells ==
    {MissingCell, Text(<<"X">>), Text(<<"1", ",", "0">>)}
    \cup {Text(StrOf(x)) : x \in 0 .. MaxVal}

\* The slip of leaving the decimal comma in place.
StrKeepComma(cell) == cell

\* .str.replace(',', '.'): missing stays missing
StrReplaceComma(cell) ==
    IF cell.na THEN cell
    ELSE Text([i \in DOMAIN cell.text |-> IF cell.text[i] = "," THEN "." ELSE cell.text[i]])

RECURSIVE Pow10(_)
Pow10(k) == IF k = 0 THEN 1 ELSE 10 * Pow10(k - 1)

\* The float a string of the form digits[.digits] denotes, NaN for any other
\* string of the model.
ParseFloat(text) ==
    LET dots == {i \in DOMAIN text : text[i] = "."}
        dot == IF dots = {} THEN 0 ELSE CHOOSE i \in dots : \A j \in dots : i <= j
        whole == IF dot = 0 THEN text ELSE SubSeq(text, 1, dot - 1)
        frac == IF dot = 0 THEN <<>> ELSE SubSeq(text, dot + 1, Len(text))
    IN  IF /\ whole \o frac # <<>>
           /\ \A i \in DOMAIN whole : whole[i] \in Digits
           /\ \A i \in DOMAIN frac : frac[i] \in Digits
        THEN Rat(IntOf(whole \o frac), Pow10(Len(frac)))
        ELSE NaN

\* pd.to_numeric(..., errors='coerce')
ToNumeric(cell) == IF cell.na THEN NaN ELSE ParseFloat(cell.text)

\* .fillna(0)
FillNaZero(v) == IF v.k = "nan" THEN Zero ELSE v

\* The numbers of the model's cells are whole; the later steps read them as
\* counts.
AsCount(v) == v.n \div v.d

\* line 105, one cell
ConvertCell(cell) == AsCount(FillNaZero(ToNumeric(StrReplaceComma(cell))))

\* lines 103-105
ConvertTable(raw) ==
    [i \in DOMAIN raw |->
        [cd_setor |-> raw[i].cd_setor,
         vals |-> [c \in DOMAIN raw[i].vals |-> ConvertCell(raw[i].vals[c])]]]

RawRows(t, key) == {[cd_setor |-> t, vals |-> f] : f \in [RawVars(key) -> RawCells]}

RawTables(key) ==
    {<<>>}
    \cup {<<r>> : r \in RawRows("t1", key) \cup RawRows("t2", key)}
    \cup {<<r1, r2>> : r1 \in RawRows("t1", key), r2 \in RawRows("t2", key)}

\* Base tables for the conversion: hexagon h1 over both tracts, h2 in t1.
RawGrids ==
    { GridTable(Pick(AllBaseRows, {1, 2, 3}),
                <<[h3_id |-> "h1", qtd_dom |-> q1], [h3_id |-> "h2", qtd_dom |-> q2]>>) :
        q1 \in 1 .. MaxQtd, q2 \in 1 .. MaxQtd }

InitRaw ==
    /\ fs = <<>>
    /\ stamp = 0
    /\ VerIdle
    /\ PipeIdle
    /\ GridIdle
    /\ aggPc = "raw"
    /\ indKey = "v2"
    /\ dfH3 \in RawGrids
    /\ rawCenso \in RawTables(indKey)
    /\ dfCenso = <<>>
    /\ dfMerged = <<>>
    /\ dfHex = <<>>
    /\ absSeries = <<>>
    /\ normSeries = <<>>
    /\ ScoreIdle
    /\ NormIdle
    /\ ConsIdle

\* lines 103-105
AggConvert ==
    /\ aggPc = "raw"
    /\ dfCenso' = ConvertTable(rawCenso)
    /\ aggPc' = "loaded"
    /\ UNCHANGED <<AggOthers, indKey, dfH3, dfMerged, dfHex, absSeries, normSeries, rawCenso>>

NextRaw == AggConvert \/ NextAgg

SpecRaw == InitRaw /\ [][NextRaw]_vars

\* ================================================================ Scorer data
\* Projected facility records and hexagon centroids, in metres; services is
\* the sum of the six service flags of the facility.
FacilityPool ==
    { [pos |-> <<0, 0>>, services |-> 4], [pos |-> <<500, 0>>, services |-> 9],
      [pos |-> <<2000, 0>>, services |-> 0], [pos |-> <<0, 1500>>, services |-> 9] }
HexPoints == <<[h3_id |-> "h1", pos |-> <<0, 0>>], [h3_id |-> "h2", pos |-> <<2000, 0>>]>>

\* Euclidean distance in the EPSG:5880 plane, in metres.  Every distance
\* between a centroid and a facility of the model is a whole multiple of
\* 500 m, so the square root is exact.
Dist(p, q) ==
    LET sq == (p[1] - q[1]) * (p[1] - q[1]) + (p[2] - q[2]) * (p[2] - q[2])
    IN  CHOOSE r \in {500 * i : i \in 0 .. 5} : r * r = sq

Registries == UNION { [1 .. n -> FacilityPool] : n \in 0 .. MaxReg }

\* line 88: capacity_score = df_cnes[services].sum(axis=1) + 1
WithCapacity(cnes) ==
    [i \in DOMAIN cnes |->
        [pos |-> cnes[i].pos, services |-> cnes[i].services,
         capacity_score |-> cnes[i].services + 1]]

\* What tree.query(point, k) may return on n >= 1 points: the min(k, n)
\* nearest points in order of distance, ties in either order, then the
\* index n (one past the last, here n + 1) at infinite distance for every
\* neighbour that does not exist.
KnnResults(cnes, point, k) ==
    LET n == Len(cnes)
        m == IF n < k THEN n ELSE k
        dists == [i \in 1 .. n |-> Dist(cnes[i].pos, point)]
        d(i) == dists[i]
    IN  { [j \in 1 .. k |->
              IF j <= m THEN [idx |-> q[j], dist |-> d(q[j]), found |-> TRUE]
              ELSE [idx |-> n + 1, dist |-> 0, found |-> FALSE]] :
            q \in { f \in [1 .. m -> 1 .. n] :
                      /\ \A a, b \in 1 .. m : a < b => (f[a] # f[b] /\ d(f[a]) <= d(f[b]))
                      /\ \A a \in 1 .. m : \A i \in 1 .. n :
                            (\A b \in 1 .. m : f[b] # i) => d(f[a]) <= d(i) } }

\* A slip in the floor constant.
GravWeightShortFloor(cap, dist) == Rat(cap, dist + 10)

\* capacities[indices] / (distances + 100), one entry
GravWeight(cap, dist) == Rat(cap, dist + 100)

\* np.sum(gravitational_weights, axis=1), one hexagon
RECURSIVE RowScore(_, _)
RowScore(cnes, near) ==
    IF near = <<>> THEN Zero
    ELSE RNorm(RAdd(GravWeight(cnes[Head(near).idx].capacity_score, Head(near).dist),
                    RowScore(cnes, Tail(near))))

InitScore ==
    /\ fs = <<>>
    /\ stamp = 0
    /\ VerIdle
    /\ PipeIdle
    /\ GridIdle
    /\ AggIdle
    /\ NormIdle
    /\ ConsIdle
    /\ scorePc = "loaded"
    /\ dfCnes \in Registries
    /\ coordsH3 = HexPoints
    /\ knn = <<>>
    /\ scoreAbs = <<>>
    /\ scoreLog = <<>>
    /\ scoreNorm = <<>>

ScoreOthers == <<fs, stamp, varsVer, varsPipe, varsGrid, varsAgg, varsNorm, varsCons>>

\* line 88
ScoreCapacity ==
    /\ scorePc = "loaded"
    /\ dfCnes' = WithCapacity(dfCnes)
    /\ scorePc' = "capacity"
    /\ UNCHANGED <<ScoreOthers, coordsH3, knn, scoreAbs, scoreLog, scoreNorm>>

\* lines 127-128: cKDTree(coords_cnes) raises ValueError on an empty array.
ScoreQuery ==
    /\ scorePc = "capacity"
    /\ IF dfCnes = <<>>
       THEN scorePc' = "failed" /\ UNCHANGED knn
       ELSE /\ LET res == [h \in DOMAIN coordsH3 |->
                              KnnResults(dfCnes, coordsH3[h].pos, NeighboursK)]
               IN  \E r1 \in res[1] : \E r2 \in res[2] : knn' = <<r1, r2>>
            /\ scorePc' = "queried"
    /\ UNCHANGED <<ScoreOthers, dfCnes, coordsH3, scoreAbs, scoreLog, scoreNorm>>

\* lines 129-132: capacities[indices] raises IndexError on the index n.
ScoreSum ==
    /\ scorePc = "queried"
    /\ IF \E h \in DOMAIN knn : \E j \in DOMAIN knn[h] : knn[h][j].idx > Len(dfCnes)
       THEN scorePc' = "failed" /\ UNCHANGED scoreAbs
       ELSE /\ scoreAbs' = [h \in DOMAIN coordsH3 |-> RowScore(dfCnes, knn[h])]
            /\ scorePc' = "scored"
    /\ UNCHANGED <<ScoreOthers, dfCnes, coordsH3, knn, scoreLog, scoreNorm>>

\* np.log1p(x) is kept symbolic: the natural logarithm of 1 + x, of which the
\* model uses only that it is strictly increasing in x.
Log1p(x) == [k |-> "log1p", of |-> x]

\* min() and max() of a column of logarithms: the logarithm of the least and
\* of the greatest argument.
LogMin(col) == Log1p(SeriesMin([i \in DOMAIN col |-> col[i].of]))
LogMax(col) == Log1p(SeriesMax([i \in DOMAIN col |-> col[i].of]))

\* (log1p(x) - log1p(lo)) / (log1p(hi) - log1p(lo)), symbolic
LogRatio(x, lo, hi) == [k |-> "logratio", x |-> x, lo |-> lo, hi |-> hi]

\* The slip of scaling by the maximum alone, from log1p(0) = 0.
LogMinMaxUnshifted(col) ==
    IF RLess(LogMin(col).of, LogMax(col).of)
    THEN [i \in DOMAIN col |-> LogRatio(col[i].of, Zero, LogMax(col).of)]
    ELSE [i \in DOMAIN col |-> Zero]

\* lines 145-151: min-max scaling of the log column, 0.0 when max <= min
LogMinMax(col) ==
    IF RLess(LogMin(col).of, LogMax(col).of)
    THEN [i \in DOMAIN col |-> LogRatio(col[i].of, LogMin(col).of, LogMax(col).of)]
    ELSE [i \in DOMAIN col |-> Zero]

\* line 142
ScoreLog ==
    /\ scorePc = "scored"
    /\ scoreLog' = [h \in DOMAIN scoreAbs |-> Log1p(scoreAbs[h])]
    /\ scorePc' = "logged"
    /\ UNCHANGED <<ScoreOthers, dfCnes, coordsH3, knn, scoreAbs, scoreNorm>>

\* lines 145-160: the scaling, then df_export is saved.
ScoreNormalize ==
    /\ scorePc = "logged"
    /\ scoreNorm' = LogMinMax(scoreLog)
    /\ scorePc' = "exported"
    /\ UNCHANGED <<ScoreOthers, dfCnes, coordsH3, knn, scoreAbs, scoreLog>>

NextScore == ScoreCapacity \/ ScoreQuery \/ ScoreSum \/ ScoreLog \/ ScoreNormalize

SpecScore == InitScore /\ [][NextScore]_vars

\* Either ETL script that persists a normalized column.
InitEtl == InitAgg \/ InitScore

NextEtl == NextAgg \/ NextScore

SpecEtl == InitEtl /\ [][NextEtl]_vars

\* ================================================================ index composition, with its data
\* consolidate_inputs on tables: the base metadata file and the indicator
\* files are there or not, and hold any rows.
MaxConsRows == 2

\* The indicator keys of files_dict the model covers, in dictionary order.
ConsKeys == <<"v1", "v5">>

ConsHexLists == UNION {[1 .. n -> Hexes] : n \in 0 .. MaxConsRows}

\* The base metadata file: missing, or rows (h3_id, cd_setor).
ConsBaseFiles ==
    {[found |-> FALSE, rows |-> <<>>]}
    \cup {[found |-> TRUE,
           rows |-> [i \in DOMAIN hs |-> [h3_id |-> hs[i], cd_setor |-> "t1"]]] :
          hs \in ConsHexLists}

\* An indicator file: missing, or rows (h3_id, value) with or without the
\* column COLUMN_MAP names.
ConsIndFiles ==
    {[found |-> FALSE, hasCol |-> FALSE, rows |-> <<>>]}
    \cup {[found |-> TRUE, hasCol |-> c,
           rows |-> [i \in DOMAIN hs |-> [h3_id |-> hs[i],
                                          val |-> IF i = 1 THEN Zero ELSE One]]] :
          hs \in ConsHexLists, c \in BOOLEAN}

\* df_master[existing_cols]: the join key and the metadata columns.
MasterOf(rows) ==
    [i \in DOMAIN rows |-> [h3_id |-> rows[i].h3_id, cd_setor |-> rows[i].cd_setor,
                            cols |-> <<>>]]

WithCol(row, key, v) ==
    [row EXCEPT !.cols = [k \in (DOMAIN row.cols) \cup {key} |->
                             IF k = key THEN v ELSE row.cols[k]]]

\* The rows of df_temp that match one row of df_master, in df_temp's order.
RECURSIVE MatchesOf(_, _, _)
MatchesOf(row, temp, key) ==
    IF temp = <<>> THEN <<>>
    ELSE IF Head(temp).h3_id = row.h3_id
         THEN <<WithCol(row, key, Head(temp).val)>> \o MatchesOf(row, Tail(temp), key)
         ELSE MatchesOf(row, Tail(temp), key)

\* pd.merge(df_master, df_temp, on=join_key, how='left'): the rows of
\* df_master in order, each once per matching row of df_temp, or once with NaN.
RECURSIVE LeftMerge(_, _, _)
LeftMerge(master, temp, key) ==
    IF master = <<>> THEN <<>>
    ELSE LET m == MatchesOf(Head(master), temp, key)
         IN  (IF m = <<>> THEN <<WithCol(Head(master), key, NaN)>> ELSE m)
             \o LeftMerge(Tail(master), temp, key)

\* One iteration of the loop over files_dict.
Integrate(master, file, key) ==
    IF ~file.found THEN master
    ELSE IF ~file.hasCol THEN master
    ELSE LeftMerge(master, file.rows, key)

\* df[existing_cols].mean(axis=1): the mean of the values that are not NaN,
\* NaN when there is none.
RowMean(row) ==
    LET ks == {k \in DOMAIN row.cols : row.cols[k].k = "num"}
        ones == {k \in ks : REq(row.cols[k], One)}
    IN  IF ks = {} THEN NaN ELSE RNorm(Rat(Cardinality(ones), Cardinality(ks)))

\* calculate_simple_cji: a copy with the dimension means and cji_final, row
\* for row.  The keys of the model belong to one dimension, the other
\* dimensions are NaN, and cji_final is the mean of the dimensions present.
CalculateSimpleCji(df) ==
    [i \in DOMAIN df |-> [h3_id |-> df[i].h3_id, cd_setor |-> df[i].cd_setor,
                          cols |-> df[i].cols, cji_final |-> RowMean(df[i])]]

InitCons ==
    /\ fs = <<>>
    /\ stamp = 0
    /\ VerIdle
    /\ PipeIdle
    /\ GridIdle
    /\ AggIdle
    /\ ScoreIdle
    /\ NormIdle
    /\ consPc = "load"
    /\ baseTable \in ConsBaseFiles
    /\ indFiles \in [DOMAIN ConsKeys -> ConsIndFiles]
    /\ consKey = 0
    /\ dfMaster = <<>>

ConsOthers == <<fs, stamp, varsVer, varsPipe, varsGrid, varsAgg, varsScore, varsNorm>>

\* lines 17-26: the base is loaded, or None is returned and run_h3 stops.
ConsLoadBase ==
    /\ consPc = "load"
    /\ IF baseTable.found
       THEN /\ dfMaster' = MasterOf(baseTable.rows)
            /\ consKey' = 1
            /\ consPc' = "loop"
       ELSE /\ consPc' = "none"
            /\ UNCHANGED <<dfMaster, consKey>>
    /\ UNCHANGED <<ConsOthers, baseTable, indFiles>>

\* lines 29-55
ConsIntegrate ==
    /\ consPc = "loop"
    /\ consKey <= Len(ConsKeys)
    /\ dfMaster' = Integrate(dfMaster, indFiles[consKey], ConsKeys[consKey])
    /\ consKey' = consKey + 1
    /\ UNCHANGED <<ConsOthers, baseTable, indFiles, consPc>>

\* line 57
ConsReturn ==
    /\ consPc = "loop"
    /\ consKey > Len(ConsKeys)
    /\ consPc' = "returned"
    /\ UNCHANGED <<ConsOthers, baseTable, indFiles, consKey, dfMaster>>

\* run_h3 lines 65-90: an empty table is not saved; otherwise the index is
\* calculated and the table is saved.
ConsRunH3 ==
    /\ consPc = "returned"
    /\ IF dfMaster = <<>>
       THEN consPc' = "no_data" /\ UNCHANGED dfMaster
       ELSE /\ dfMaster' = CalculateSimpleCji(dfMaster)
            /\ consPc' = "saved"
    /\ UNCHANGED <<ConsOthers, baseTable, indFiles, consKey>>

NextCons == ConsLoadBase \/ ConsIntegrate \/ ConsReturn \/ ConsRunH3

SpecCons == InitCons /\ [][NextCons]_vars

\* ================================================================ claims
\* ---------------------------------------------------------------- C1
RowsOfTract(rows, t) == {i \in DOMAIN rows : rows[i].cd_setor = t}

RECURSIVE SumWeights(_, _)
SumWeights(rows, S) ==
    IF S = {} THEN Zero
    ELSE LET i == CHOOSE x \in S : TRUE
         IN  RAdd(rows[i].peso_dom, SumWeights(rows, S \ {i}))

RECURSIVE SumQtd(_, _)
SumQtd(rows, S) ==
    IF S = {} THEN 0
    ELSE LET i == CHOOSE x \in S : TRUE
         IN  rows[i].qtd_dom + SumQtd(rows, S \ {i})

\* C1: in the persisted base metadata table, for every tract that has a row
\* and a nonzero household total, every peso_dom is a number and the weights
\* of the tract's rows sum to exactly 1, the filter on qtd_dom > 0 included.
C1_WeightsSumToOne ==
    gridPc = "persisted" =>
        \A t \in Tracts :
            (RowsOfTract(dfFinal, t) # {}
               /\ SumQtd(dfFinal, RowsOfTract(dfFinal, t)) # 0) =>
                /\ \A i \in RowsOfTract(dfFinal, t) : dfFinal[i].peso_dom.k = "num"
                /\ REq(SumWeights(dfFinal, RowsOfTract(dfFinal, t)), One)

\* A tract that keeps two rows while the filter removed a zero-household row
\* of the same tract, next to another inhabited tract.
C1_Witness ==
    /\ gridPc = "persisted"
    /\ Cardinality(RowsOfTract(dfFinal, "t1")) >= 2
    /\ RowsOfTract(dfFinal, "t2") # {}
    /\ \E i \in DOMAIN Merge(dfBase, dfDom) :
          /\ Merge(dfBase, dfDom)[i].cd_setor = "t1"
          /\ Merge(dfBase, dfDom)[i].qtd_dom = 0

\* ---------------------------------------------------------------- C2
\* C2: for every row the join produced, once the weights are cleaned,
\* peso_dom is a number (never NaN or an infinity); it equals
\* qtd_dom / tract_total when the tract's summed household count is > 0 and
\* 0 when that total is 0.
C2_WeightIsShare ==
    gridPc \in {"filled", "persisted"} =>
        \A i \in DOMAIN dfFinal :
            LET total == SumQtd(dfFinal, RowsOfTract(dfFinal, dfFinal[i].cd_setor))
                w == dfFinal[i].peso_dom
            IN  /\ w.k = "num"
                /\ w.d > 0
                /\ IF total > 0 THEN w.n * total = dfFinal[i].qtd_dom * w.d
                   ELSE w.n = 0

\* Before the filter: one tract without households, and another one whose
\* households are split between two rows.
C2_Witness ==
    /\ gridPc = "filled"
    /\ \E i, j \in DOMAIN dfFinal :
          /\ SumQtd(dfFinal, RowsOfTract(dfFinal, dfFinal[i].cd_setor)) = 0
          /\ REq(dfFinal[i].peso_dom, Zero)
          /\ RLess(Zero, dfFinal[j].peso_dom)
          /\ RLess(dfFinal[j].peso_dom, One)

\* ---------------------------------------------------------------- C3
\* The (grid row, census row) pairs that land in hexagon h.
PairsOf(h) ==
    {p \in (DOMAIN dfH3) \X (DOMAIN dfCenso) :
        dfH3[p[1]].h3_id = h /\ dfH3[p[1]].cd_setor = dfCenso[p[2]].cd_setor}

RECURSIVE TractSum(_, _)
TractSum(vals, cols) ==
    IF cols = <<>> THEN 0 ELSE vals[Head(cols)] + TractSum(vals, Tail(cols))

\* Sum over the pairs of weight * (sum of the tract's values in cols).
RECURSIVE WeightedTotal(_, _)
WeightedTotal(P, cols) ==
    IF P = {} THEN Zero
    ELSE LET p == CHOOSE x \in P : TRUE
         IN  RAdd(RScale(dfH3[p[1]].peso_dom, TractSum(dfCenso[p[2]].vals, cols)),
                  WeightedTotal(P \ {p}, cols))

\* C3: the series has one entry per hexagon that has a tract in the census,
\* and the entry is (weighted sum of the numerator variables) / (weighted sum
\* of the denominator variables) when the latter is > 0, and 0 otherwise.
C3_RatioOfSums ==
    aggPc = "ratio" =>
        /\ Len(absSeries) = Len(dfHex)
        /\ {dfHex[i].h3_id : i \in DOMAIN dfHex} = {h \in Hexes : PairsOf(h) # {}}
        /\ \A i \in DOMAIN dfHex :
              LET P == PairsOf(dfHex[i].h3_id)
                  num == WeightedTotal(P, NumCols(indKey))
                  den == WeightedTotal(P, DenCols(indKey))
              IN  IF RLess(Zero, den)
                  THEN REq(RMul(absSeries[i], den), num)
                  ELSE REq(absSeries[i], Zero)

\* A hexagon with rows from two tracts whose ratio of sums is not the average
\* of the two rows' ratios, both tracts having a positive denominator.
C3_Witness ==
    /\ aggPc = "ratio"
    /\ \E i \in DOMAIN dfHex :
          /\ Cardinality({dfH3[p[1]].cd_setor : p \in PairsOf(dfHex[i].h3_id)}) = 2
          /\ \A p \in PairsOf(dfHex[i].h3_id) :
                TractSum(dfCenso[p[2]].vals, DenCols(indKey)) > 0
          /\ RLess(Zero, absSeries[i])
          /\ ~REq(absSeries[i], MeanOfRowRatios(dfMerged, dfHex[i].h3_id, indKey))

\* ---------------------------------------------------------------- C4
\* S holds 3 facilities none of which is farther from the point than a
\* facility outside S.
IsNearest3(S, point) ==
    /\ Cardinality(S) = 3
    /\ \A i \in S : \A j \in (DOMAIN dfCnes) \ S :
          Dist(dfCnes[i].pos, point) <= Dist(dfCnes[j].pos, point)

RECURSIVE GravitySum(_, _)
GravitySum(S, point) ==
    IF S = {} THEN Zero
    ELSE LET i == CHOOSE x \in S : TRUE
         IN  RNorm(RAdd(Rat(dfCnes[i].capacity_score, Dist(dfCnes[i].pos, point) + 100),
                        GravitySum(S \ {i}, point)))

\* C4: every hexagon's absolute score is the sum, over exactly 3 facilities
\* nearest to its centroid, of capacity_score / (distance in metres + 100).
C4_GravitationalScore ==
    scorePc = "scored" =>
        \A h \in DOMAIN coordsH3 :
            \E S \in SUBSET (DOMAIN dfCnes) :
                /\ IsNearest3(S, coordsH3[h].pos)
                /\ RNorm(scoreAbs[h]) = GravitySum(S, coordsH3[h].pos)

\* The example of the claim: facilities at 0, 500 and 2000 m with capacities
\* 5, 10 and 1 give 5/100 + 10/600 + 1/2100 = 47/700.
C4_Witness ==
    /\ scorePc = "scored"
    /\ \E h \in DOMAIN coordsH3 :
          /\ {<<knn[h][j].dist, dfCnes[knn[h][j].idx].capacity_score>> : j \in 1 .. 3}
                = {<<0, 5>>, <<500, 10>>, <<2000, 1>>}
          /\ RNorm(scoreAbs[h]) = Rat(47, 700)

\* ---------------------------------------------------------------- C11
HexesOf(rows) == {rows[i].h3_id : i \in DOMAIN rows}

\* C11: the hexagons of the persisted base metadata table are exactly those
\* that have a crosswalk row and a household-count row with qtd_dom > 0.
C11_InhabitedJoinedHexagons ==
    gridPc = "persisted" =>
        HexesOf(dfFinal) =
            {h \in HexesOf(dfBase) : \E j \in DOMAIN dfDom :
                                        dfDom[j].h3_id = h /\ dfDom[j].qtd_dom > 0}

\* All three ways of being left out at once: a hexagon only in the household
\* data, a hexagon only in the crosswalk, a hexagon with a zero count, next to
\* one that is kept.
C11_Witness ==
    /\ gridPc = "persisted"
    /\ dfFinal # <<>>
    /\ \E j \in DOMAIN dfDom : dfDom[j].h3_id \notin HexesOf(dfBase)
    /\ \E j \in DOMAIN dfDom :
          /\ dfDom[j].h3_id \in HexesOf(dfBase) \ HexesOf(dfFinal)
          /\ dfDom[j].qtd_dom = 0

\* ---------------------------------------------------------------- C12
\* C12: every row of the persisted base metadata table has a tract id, for
\* any crosswalk and any household counts.
C12_TractNeverNull ==
    gridPc = "persisted" => \A i \in DOMAIN dfFinal : dfFinal[i].cd_setor # NoTract

\* ---------------------------------------------------------------- C13
OneRowPerHexagon(rows) ==
    \A i, j \in DOMAIN rows : rows[i].h3_id = rows[j].h3_id => i = j

\* C13: given a crosswalk with one row per hexagon, the persisted base
\* metadata table holds at most one row per hexagon id, whatever chunks the
\* household counts were concatenated from.
C13_KeyedByHexagon ==
    (gridPc = "persisted" /\ OneRowPerHexagon(dfBase)) => OneRowPerHexagon(dfFinal)

\* ---------------------------------------------------------------- C14
\* The tracts of the grid rows of hexagon h.
TractsOfHex(h) == {dfH3[g].cd_setor : g \in {x \in DOMAIN dfH3 : dfH3[x].h3_id = h}}

SingleTract(h) ==
    /\ Cardinality(TractsOfHex(h)) = 1
    /\ \A g \in DOMAIN dfH3 : dfH3[g].h3_id = h => dfH3[g].peso_dom.n > 0

\* C14: a hexagon all of whose rows belong to one tract, with positive
\* weight, gets the tract's own ratio, numerator / denominator (0 when the
\* tract's denominator is 0), whatever the weight is.
C14_SingleTractRatio ==
    aggPc = "ratio" =>
        \A i \in DOMAIN dfHex :
            SingleTract(dfHex[i].h3_id) =>
                \A c \in DOMAIN dfCenso :
                    dfCenso[c].cd_setor \in TractsOfHex(dfHex[i].h3_id) =>
                        LET N == TractSum(dfCenso[c].vals, NumCols(indKey))
                            D == TractSum(dfCenso[c].vals, DenCols(indKey))
                        IN  IF D > 0 THEN REq(absSeries[i], Rat(N, D))
                            ELSE REq(absSeries[i], Zero)

\* Two hexagons of one tract with different weights and the same ratio 2.0.
C14_Witness ==
    /\ aggPc = "ratio"
    /\ Len(dfHex) = 2
    /\ SingleTract("h1") /\ SingleTract("h2")
    /\ TractsOfHex("h1") = TractsOfHex("h2")
    /\ \E g1, g2 \in DOMAIN dfH3 :
          /\ dfH3[g1].h3_id = "h1" /\ dfH3[g2].h3_id = "h2"
          /\ ~REq(dfH3[g1].peso_dom, dfH3[g2].peso_dom)
    /\ REq(absSeries[1], Rat(2, 1)) /\ REq(absSeries[2], Rat(2, 1))

\* ---------------------------------------------------------------- C15
\* The cells that hold no number: missing, or text that is not a number once
\* a decimal comma is read as a decimal point.
Unparseable(cell) ==
    \/ cell.na
    \/ cell.text \notin
          {StrOf(x) : x \in 0 .. MaxVal} \cup
          {StrOf(x) \o <<sep, "0">> : x \in 0 .. MaxVal, sep \in {",", "."}}

\* The whole number a parseable cell of the model writes.
Written(cell) ==
    CHOOSE x \in 0 .. MaxVal :
        cell.text \in {StrOf(x)} \cup {StrOf(x) \o <<sep, "0">> : sep \in {",", "."}}

\* C15: the conversion is defined for every raw table; a missing or
\* unparseable cell becomes 0 and any other cell its number; from then on the
\* weighted rows and the hexagon aggregates hold numbers only.
C15_UnparseableIsZero ==
    /\ aggPc = "raw" =>
          \A i \in DOMAIN rawCenso : \A c \in DOMAIN rawCenso[i].vals :
              ConvertCell(rawCenso[i].vals[c]) \in Nat
    /\ aggPc \notin {"off", "raw"} =>
          \A i \in DOMAIN rawCenso : \A c \in DOMAIN rawCenso[i].vals :
              dfCenso[i].vals[c] =
                  IF Unparseable(rawCenso[i].vals[c]) THEN 0 ELSE Written(rawCenso[i].vals[c])
    /\ \A i \in DOMAIN dfHex : \A c \in DOMAIN dfHex[i].vals :
          dfHex[i].vals[c].k = "num" /\ dfHex[i].vals[c].d > 0

\* The run reaches the export with a hexagon fed by a tract that has a
\* missing numerator and by a tract that has an unparseable denominator.
C15_Witness ==
    /\ aggPc = "exported"
    /\ Len(rawCenso) = 2
    /\ rawCenso[1].vals["v00238"].na
    /\ rawCenso[2].vals["v00001"] = Text(<<"X">>)
    /\ rawCenso[1].vals["v00001"] = Text(<<"1", ",", "0">>)
    /\ \E i \in DOMAIN dfHex : Cardinality(PairsOf(dfHex[i].h3_id)) = 2

\* ---------------------------------------------------------------- C16
\* The indicators CENSUS_LOGIC marks invert: True.
InvertedKeys == {"v2", "v4", "p1", "p2", "p3", "p4", "p5"}

\* C16: the persisted normalized value of every hexagon is 1 minus the plain
\* normalized value of its ratio for an inverted indicator, and the plain
\* normalized value itself for the others.
C16_InvertedIsOneMinus ==
    aggPc = "exported" =>
        LET plain == NormalizeMinMax(absSeries, TRUE, DefaultLimits)
        IN  /\ Len(normSeries) = Len(dfHex)
            /\ \A i \in DOMAIN normSeries :
                  /\ normSeries[i].k = "num"
                  /\ IF indKey \in InvertedKeys
                     THEN REq(RAdd(normSeries[i], plain[i]), One)
                     ELSE REq(normSeries[i], plain[i])

\* An inverted indicator whose smaller ratio is persisted as 1 and whose
\* larger ratio as 0.
C16_Witness ==
    /\ aggPc = "exported"
    /\ indKey \in InvertedKeys
    /\ Len(normSeries) = 2
    /\ RLess(absSeries[1], absSeries[2])
    /\ REq(normSeries[1], One) /\ REq(normSeries[2], Zero)

\* ---------------------------------------------------------------- C17
ConstantSeries(s) == \A i, j \in DOMAIN s : REq(s[i], s[j])

\* C17: normalize_minmax of a constant series, of any length and with or
\* without winsorization, returns a series of the same length whose entries
\* are all the number 0.0.
C17_ConstantToZero ==
    (nmPc = "returned" /\ ConstantSeries(nmSeries)) =>
        /\ Len(nmOut) = Len(nmSeries)
        /\ \A i \in DOMAIN nmOut : nmOut[i].k = "num" /\ nmOut[i].n = 0

\* A constant nonzero series of three or more entries, winsorized.
C17_Witness ==
    /\ nmPc = "returned"
    /\ ConstantSeries(nmSeries)
    /\ Len(nmSeries) >= 3
    /\ nmSeries[1].n > 0
    /\ nmWinsorize
    /\ Len(nmOut) = Len(nmSeries)

\* ---------------------------------------------------------------- C18
AllEqualTo(series, v) == \A i \in DOMAIN series : series[i].k = "num" /\ REq(series[i], v)

\* C18 as stated: an indicator whose ratio series has zero variance is
\* persisted with the normalized value 0.0 for every hexagon.
C18_Original ==
    (aggPc = "exported" /\ ConstantSeries(absSeries)) => AllEqualTo(normSeries, Zero)

\* C18 amended: it is persisted with one constant for every hexagon, 0.0 when
\* the indicator is not inverted and 1.0 when it is.
C18_Amended ==
    (aggPc = "exported" /\ ConstantSeries(absSeries)) =>
        AllEqualTo(normSeries, IF indKey \in InvertedKeys THEN One ELSE Zero)

\* Two hexagons with the same nonzero ratio, once for an inverted indicator
\* and once for the income indicator.
C18_Witness ==
    /\ aggPc = "exported"
    /\ Len(absSeries) = 2
    /\ ConstantSeries(absSeries)
    /\ RLess(Zero, absSeries[1])
    /\ \/ indKey \in InvertedKeys /\ AllEqualTo(normSeries, One)
       \/ indKey = "v1" /\ AllEqualTo(normSeries, Zero)

\* ---------------------------------------------------------------- C19
\* The records at the low end: those holding the minimum, and with
\* winsorization those at or below the lower percentile bound.
LowRecords ==
    {i \in DOMAIN nmSeries :
        \/ REq(nmSeries[i], SeriesMin(nmSeries))
        \/ nmWinsorize /\ RLeq(nmSeries[i], Quantile(nmSeries, nmLimits[1]))}

HighRecords ==
    {i \in DOMAIN nmSeries :
        \/ REq(nmSeries[i], SeriesMax(nmSeries))
        \/ nmWinsorize /\ RLeq(Quantile(nmSeries, nmLimits[2]), nmSeries[i])}

EndsAtZeroAndOne ==
    /\ \A i \in LowRecords : nmOut[i].k = "num" /\ REq(nmOut[i], Zero)
    /\ \A i \in HighRecords : nmOut[i].k = "num" /\ REq(nmOut[i], One)

\* C19 as stated: for every non-constant series the low records map to
\* exactly 0.0 and the high records to exactly 1.0.
C19_Original ==
    (nmPc = "returned" /\ ~ConstantSeries(nmSeries)) => EndsAtZeroAndOne

\* C19 amended: the same for every series that is still non-constant after
\* the optional winsorization, i.e. whose two percentile bounds differ.
C19_Amended ==
    (/\ nmPc = "returned"
     /\ ~ConstantSeries(nmSeries)
     /\ nmWinsorize => ~REq(Quantile(nmSeries, nmLimits[1]), Quantile(nmSeries, nmLimits[2])))
        => EndsAtZeroAndOne

\* A winsorized series in which two different values are clipped up to the
\* lower bound and one value is clipped down to the upper bound.
C19_Witness ==
    /\ nmPc = "returned"
    /\ nmWinsorize
    /\ Len(nmSeries) >= 3
    /\ ~REq(Quantile(nmSeries, nmLimits[1]), Quantile(nmSeries, nmLimits[2]))
    /\ \E i \in DOMAIN nmSeries :
          /\ RLess(SeriesMin(nmSeries), nmSeries[i])
          /\ RLeq(nmSeries[i], Quantile(nmSeries, nmLimits[1]))
    /\ \E i \in DOMAIN nmSeries : RLess(Quantile(nmSeries, nmLimits[2]), nmSeries[i])
    /\ EndsAtZeroAndOne

\* ---------------------------------------------------------------- C20
\* A persisted normalized value lies in [0, 1]: a number between 0 and 1, or
\* the scaled logarithm of an argument between the least and the greatest.
InUnitInterval(v) ==
    \/ v.k = "num" /\ v.d > 0 /\ RLeq(Zero, v) /\ RLeq(v, One)
    \/ v.k = "logratio" /\ RLeq(Zero, v.lo) /\ RLeq(v.lo, v.x) /\ RLeq(v.x, v.hi)
          /\ RLess(v.lo, v.hi)

\* C20: every normalized value the Aggregator persists, inverted or not, and
\* every normalized value the Scorer persists lies in [0, 1].
C20_NormalizedInUnitInterval ==
    /\ aggPc = "exported" => \A i \in DOMAIN normSeries : InUnitInterval(normSeries[i])
    /\ scorePc = "exported" => \A h \in DOMAIN scoreNorm : InUnitInterval(scoreNorm[h])

\* The Scorer persists two hexagons with different scores, scaled to the two
\* ends of the interval.
C20_Witness ==
    /\ scorePc = "exported"
    /\ \E h1, h2 \in DOMAIN scoreNorm :
          /\ scoreNorm[h1].k = "logratio" /\ scoreNorm[h2].k = "logratio"
          /\ REq(scoreNorm[h1].x, scoreNorm[h1].lo)
          /\ REq(scoreNorm[h2].x, scoreNorm[h2].hi)

\* ---------------------------------------------------------------- C21
SameSeries(a, b) ==
    /\ Len(a) = Len(b)
    /\ \A i \in DOMAIN a : a[i].k = "num" /\ b[i].k = "num" /\ REq(a[i], b[i])

\* C21 as stated: normalizing the returned series again, with the same
\* winsorize setting, returns it unchanged, and the result is aligned with
\* the input.
C21_Original ==
    (nmPc = "again" /\ nmWinsorize2 = nmWinsorize) =>
        SameSeries(nmOut2, nmOut) /\ Len(nmOut) = Len(nmSeries)

\* C21 amended: whatever winsorize setting produced the returned series,
\* normalizing it again without winsorization returns it unchanged; both
\* results are aligned with the input, and no call changes its argument.
C21_Amended ==
    /\ [](nmPc \in {"returned", "again"} => Len(nmOut) = Len(nmSeries))
    /\ []((nmPc = "again" /\ ~nmWinsorize2) =>
              SameSeries(nmOut2, nmOut) /\ Len(nmOut2) = Len(nmSeries))
    /\ [][nmSeries' = nmSeries /\ (nmPc = "returned" => nmOut' = nmOut)]_vars

\* A winsorized normalization with a value strictly inside (0, 1), normalized
\* again without winsorization.
C21_Witness ==
    /\ nmPc = "again"
    /\ nmWinsorize /\ ~nmWinsorize2
    /\ \E i \in DOMAIN nmOut : RLess(Zero, nmOut[i]) /\ RLess(nmOut[i], One)
    /\ SameSeries(nmOut2, nmOut)

\* ---------------------------------------------------------------- C22
\* The value of a scaled logarithm, read through the monotonicity of log1p:
\* it is 0 at the lower end, 1 at the upper end, and two of them over the same
\* ends compare as their arguments do.
IsScaled(v) == v.k = "logratio"
ScaledIsZero(v) == IF IsScaled(v) THEN REq(v.x, v.lo) ELSE REq(v, Zero)
ScaledIsOne(v) == IsScaled(v) /\ REq(v.x, v.hi)
ScaledLess(a, b) ==
    /\ IsScaled(a) /\ IsScaled(b)
    /\ REq(a.lo, b.lo) /\ REq(a.hi, b.hi)
    /\ RLess(a.x, b.x)

LeastScore == SeriesMin(scoreAbs)
GreatestScore == SeriesMax(scoreAbs)

Queried(n) ==
    /\ pc["sc"] \in {"export", "diag", "done", "failed"}
    /\ scCnes
    /\ BasePath \in DOMAIN fsAtStart
    /\ scFac = n

ScorerAborted(e) ==
    /\ pc["sc"] = "failed"
    /\ err = e
    /\ fs = fsAtStart
    /\ \A d \in diags : d.run # run

\* C23: with no facility with valid coordinates the Scorer run ends in an
\* uncaught error and leaves the directories as they were: no indicator file,
\* no zero-filled scores.
C23_EmptyRegistryFails == Queried(0) => ScorerAborted("ValueError")

\* A Scorer run that read the grid and a registry without usable facilities.
C23_Witness == Queried(0) /\ pc["sc"] = "failed" /\ IndPath("v5") \notin Files

\* ---------------------------------------------------------------- C30
\* C30: with 1 or 2 facilities with valid coordinates the Scorer run aborts on
\* the out-of-range neighbour index and writes no indicator file.
C30_ShortRegistryFails ==
    \A n \in 1 .. NeighboursK - 1 : Queried(n) => ScorerAborted("IndexError")

\* A Scorer run on a registry of two facilities.
C30_Witness == Queried(2) /\ pc["sc"] = "failed" /\ err = "IndexError"

\* ---------------------------------------------------------------- C24
\* The label at which a script writes its indicator files; it is reached only
\* through the step that reads the base grid.
WritingLabel(s) == IF s = "agg" THEN "loop" ELSE "export"

\* C24: every step of an Aggregator or Scorer run that changes the
\* directories is taken after the run's read of the base grid succeeded, with
\* the Grid Builder's table in place.
C24_StageOrdering ==
    [][\A s \in {"agg", "sc"} :
          (pc[s] \notin {"idle", "done", "failed"} /\ fs' # fs) =>
              /\ pc[s] = WritingLabel(s)
              /\ BasePath \in DOMAIN fs
              /\ fs[BasePath].by = "gb"
              /\ BasePath \in DOMAIN fsAtStart]_vars

\* Indicator files of both scripts, written by runs later than the Grid
\* Builder run whose table is in place.
C24_Witness ==
    /\ BasePath \in Files
    /\ \E p, q \in Files :
          /\ fs[p].by = "agg" /\ fs[BasePath].run < fs[p].run
          /\ fs[q].by = "sc" /\ fs[BasePath].run < fs[q].run

\* ---------------------------------------------------------------- C25
\* What the Aggregator alone leaves in directory f after saving `keys`, and
\* what the Scorer alone leaves after its export.
RECURSIVE AggWrites(_, _)
AggWrites(f, keys) ==
    IF keys = <<>> THEN f
    ELSE AggWrites(SaveParquetTo(f, IndPath(Head(keys)), Content("agg", Head(keys))),
                   Tail(keys))

ScWrites(f, exported) ==
    IF exported THEN WriteFile(f, IndPath("v5"), Content("sc", "v5")) ELSE f

ScExported == pc["sc"] \in {"diag", "done"}

BothLaunched == pc["agg"] # "idle" /\ pc["sc"] # "idle"

\* C25: with the two scripts interleaved, no step touches the base grid
\* either of them reads, and the directories hold at every moment what the
\* saves done so far leave when the Aggregator runs first and when the
\* Scorer runs first.
C25_IndependentRuns ==
    /\ [](BothLaunched =>
            /\ fs = ScWrites(AggWrites(fsAtStart, generated), ScExported)
            /\ fs = AggWrites(ScWrites(fsAtStart, ScExported), generated))
    /\ [][BothLaunched =>
            /\ (BasePath \in DOMAIN fs) = (BasePath \in DOMAIN fs')
            /\ BasePath \in DOMAIN fs => fs'[BasePath] = fs[BasePath]]_vars

\* The Scorer exported between two saves of the Aggregator, next to results
\* of earlier runs.
C25_Witness ==
    /\ BothLaunched
    /\ pc["agg"] = "done"
    /\ ScExported
    /\ Len(generated) = Len(AggKeys)
    /\ IndPath("v5") \in DOMAIN fsAtStart
    /\ Versioned(IndPath(AggKeys[1]), 1) \in DOMAIN fsAtStart

\* ---------------------------------------------------------------- C26
\* C26 (as stated): the path get_next_version_path returned for the last
\* save_parquet call did not exist when it was returned, and no file that
\* existed before the call was overwritten by it.
C26_ReturnedPathIsFree ==
    stamp > 0 =>
        /\ lastFinal \notin DOMAIN lastFs
        /\ \A p \in DOMAIN lastFs : fs[p] = lastFs[p]

\* ---------------------------------------------------------------- C27
\* C27 (as stated): whenever index composition consolidates its inputs after
\* the Aggregator persisted an indicator, the file composition opens for that
\* key is there and is the one the Aggregator wrote.
C27_HandOff ==
    pc["comp"] = "consolidate" =>
        \A p \in Files :
            fs[p].by = "agg" =>
                /\ fs[p].what \in FoundIndicators(Files)
                /\ fs[IndPath(fs[p].what)].by = "agg"

\* ---------------------------------------------------------------- C28
\* C28 (as stated): with the base metadata file present, the table that
\* consolidate_inputs returns and run_h3 saves has exactly one row per row of
\* the base table, in its order, whatever the indicator files hold.
C28_OneRowPerBaseRow ==
    (baseTable.found /\ consPc \in {"returned", "saved", "no_data"}) =>
        /\ Len(dfMaster) = Len(baseTable.rows)
        /\ \A i \in DOMAIN dfMaster : dfMaster[i].h3_id = baseTable.rows[i].h3_id

\* ---------------------------------------------------------------- C29
\* The apportioned quantity of column c summed over the rows of tract t, and
\* over every row of a table.
RECURSIVE TractMass(_, _, _)
TractMass(rows, t, c) ==
    IF rows = <<>> THEN Zero
    ELSE IF Head(rows).cd_setor = t
         THEN RNorm(RAdd(Head(rows).vals[c], TractMass(Tail(rows), t, c)))
         ELSE TractMass(Tail(rows), t, c)

RECURSIVE TableMass(_, _)
TableMass(rows, c) ==
    IF rows = <<>> THEN Zero
    ELSE RNorm(RAdd(Head(rows).vals[c], TableMass(Tail(rows), c)))

\* The census rows of the tracts the base grid holds: the tracts with a
\* nonzero household total.
InhabitedCenso == {j \in DOMAIN dfCenso : \E g \in DOMAIN dfH3 : dfH3[g].cd_setor = dfCenso[j].cd_setor}

RECURSIVE CensoTotal(_, _)
CensoTotal(J, c) ==
    IF J = {} THEN 0
    ELSE LET j == CHOOSE x \in J : TRUE
         IN  dfCenso[j].vals[c] + CensoTotal(J \ {j}, c)

CensoCols == UNION {DOMAIN dfCenso[j].vals : j \in DOMAIN dfCenso}

\* C29: after the weighting, the apportioned quantities of each tract that is
\* in the census and has households add up to the tract's value, for every
\* variable, and the hexagon sums add up to the total of those tracts.
C29_MassConserved ==
    /\ aggPc \in {"weighted", "grouped", "ratio", "normalized", "exported"} =>
          \A j \in InhabitedCenso : \A c \in DOMAIN dfCenso[j].vals :
              REq(TractMass(dfMerged, dfCenso[j].cd_setor, c), Rat(dfCenso[j].vals[c], 1))
    /\ aggPc \in {"grouped", "ratio", "normalized", "exported"} =>
          \A c \in CensoCols :
              REq(TableMass(dfHex, c), Rat(CensoTotal(InhabitedCenso, c), 1))

\* A tract with a positive value split over two hexagons, each getting part
\* of it.
C29_Witness ==
    /\ aggPc = "grouped"
    /\ \E j \in InhabitedCenso : \E c \in DOMAIN dfCenso[j].vals :
          /\ dfCenso[j].vals[c] > 0
          /\ \E a, b \in DOMAIN dfMerged :
                /\ dfMerged[a].h3_id # dfMerged[b].h3_id
                /\ dfMerged[a].cd_setor = dfCenso[j].cd_setor
                /\ dfMerged[b].cd_setor = dfCenso[j].cd_setor
                /\ RLess(Zero, dfMerged[a].vals[c])
                /\ RLess(Zero, dfMerged[b].vals[c])
          /\ REq(TractMass(dfMerged, dfCenso[j].cd_setor, c), Rat(dfCenso[j].vals[c], 1))

\* ---------------------------------------------------------------- C5
\* C5 (as stated): across any sequence of stage runs, a file that exists is
\* never overwritten: every step leaves each existing file in place with the
\* content it had.
C5_NeverOverwritten ==
    [][\A p \in DOMAIN fs : p \in DOMAIN fs' /\ fs'[p] = fs[p]]_vars

\* ---------------------------------------------------------------- C6
\* p is base_vN for the smallest N >= from whose file is not in files.
IsSmallestFree(files, base, from, p) ==
    \E n \in from .. (from + Cardinality(files)) :
        /\ p = Versioned(base, n)
        /\ p \notin files
        /\ \A m \in from .. (n - 1) : Versioned(base, m) \in files

\* C6 (as stated): save_parquet on a path that exists writes to another path
\* _vN, with N = 1 for an unversioned name and otherwise the smallest free N
\* above the current version, and leaves the original file as it was.
C6_Original ==
    lastPath \in DOMAIN lastFs =>
        /\ lastFinal # lastPath
        /\ fs[lastPath] = lastFs[lastPath]
        /\ IF VersionMatch(lastPath) = 0
           THEN lastFinal = Versioned(lastPath, 1)
           ELSE IsSmallestFree(DOMAIN lastFs, BaseNameOf(lastPath),
                               VersionOf(lastPath) + 1, lastFinal)

\* C6 (amended): save_parquet on a path that exists writes to another path
\* _vN that did not exist, N being the smallest free version >= 1 for an
\* unversioned name and the smallest free version above the current one
\* otherwise; the original file and every other existing file keep their content.
C6_Amended ==
    lastPath \in DOMAIN lastFs =>
        /\ lastFinal # lastPath
        /\ lastFinal \notin DOMAIN lastFs
        /\ lastFinal \in DOMAIN fs
        /\ \A p \in DOMAIN lastFs : p \in DOMAIN fs /\ fs[p] = lastFs[p]
        /\ IF VersionMatch(lastPath) = 0
           THEN IsSmallestFree(DOMAIN lastFs, lastPath, 1, lastFinal)
           ELSE IsSmallestFree(DOMAIN lastFs, BaseNameOf(lastPath),
                               VersionOf(lastPath) + 1, lastFinal)

\* An unversioned target that exists, whose _v1 exists too: the write goes to _v2.
C6_Witness ==
    /\ lastPath \in DOMAIN lastFs
    /\ VersionMatch(lastPath) = 0
    /\ Versioned(lastPath, 1) \in DOMAIN lastFs
    /\ lastFinal = Versioned(lastPath, 2)

\* ---------------------------------------------------------------- C7
\* C7 (as stated): when a stage raises inside pipeline.run / run_h3, the run
\* that main() launched ends with a non-zero exit status and without
\* reporting success.
C7_FailureExitsNonZero ==
    (pc["comp"] = "done" /\ err # "none") =>
        (exitCode # 0 /\ "success" \notin compLog)

\* ---------------------------------------------------------------- C8
\* C8: a stage whose required input is missing (the base metadata grid for
\* the Aggregator, the Scorer and index composition; the facility registry
\* for the Scorer) never completes, and the directories stay exactly as they
\* were when the run started: nothing written, nothing changed.
C8_MissingInputNoWrite ==
    /\ \A s \in {"agg", "sc", "comp"} :
          (pc[s] # "idle" /\ BasePath \notin DOMAIN fsAtStart) =>
              /\ fs = fsAtStart
              /\ s # "comp" => pc[s] # "done"
              /\ "completed" \notin compLog
              /\ \A d \in diags : d.run # run
    /\ (pc["sc"] \in {"query", "export", "diag", "done", "failed"} /\ ~scCnes
          /\ BasePath \in DOMAIN fsAtStart) =>
              /\ pc["sc"] = "failed"
              /\ err = "FileNotFoundError"
              /\ fs = fsAtStart
              /\ \A d \in diags : d.run # run

\* A Scorer run that found the grid an earlier Grid Builder run wrote, but no
\* facility registry.
C8_Witness ==
    /\ pc["sc"] = "failed"
    /\ err = "FileNotFoundError"
    /\ ~scCnes
    /\ BasePath \in Files
    /\ fs[BasePath].by = "gb"

\* ---------------------------------------------------------------- C9
GlobFailed ==
    /\ gbChunks # Unread
    /\ gbChunks = <<>> \/ \E i \in DOMAIN gbChunks : gbChunks[i] = "bad"

\* C9 (as stated): if the chunk glob matches no file or a matched file cannot
\* be read, the Grid Builder aborts with a file-not-found error and the base
\* metadata file is neither created nor modified.
C9_Original ==
    GlobFailed =>
        /\ pc["gb"] = "failed"
        /\ err = "FileNotFoundError"
        /\ fs = fsAtStart

\* C9 (amended): if the chunk glob matches no file the Grid Builder aborts
\* with pd.concat's ValueError, and if a matched file cannot be read it aborts
\* with the reader's error; in both cases the base metadata file is neither
\* created nor modified.
C9_Amended ==
    GlobFailed =>
        /\ pc["gb"] = "failed"
        /\ err = (IF gbChunks = <<>> THEN "ValueError" ELSE "ReadError")
        /\ fs = fsAtStart

\* A run that read one chunk and could not read the next, with the base
\* metadata of an earlier run on disk.
C9_Witness ==
    /\ pc["gb"] = "failed"
    /\ gbChunks = <<"ok", "bad">>
    /\ BasePath \in Files

\* ---------------------------------------------------------------- C10
\* C10 (as stated): if the Aggregator fails while processing an indicator, a
\* diagnostic report covering every indicator saved earlier in the run has
\* been written.
C10_Original ==
    (pc["agg"] = "failed" /\ generated # <<>>) =>
        \E d \in diags :
            d.stage = "agg" /\ d.run = run /\ Range(generated) \subseteq d.covers

\* C10 (amended): the Aggregator writes its diagnostic report only after the
\* loop has processed every indicator; if it fails while processing an
\* indicator no report of that run is written, and the indicator files the
\* run saved before the failure stay on disk.
C10_Amended ==
    /\ \A d \in diags : d.stage = "agg" => d.covers = Range(AggKeys)
    /\ (pc["agg"] # "idle" /\ err # "none") =>
          \A d \in diags : d.run # run
    /\ pc["agg"] # "idle" =>
          \A k \in Range(generated) :
              \E p \in Files : fs[p] = Content("agg", k)

\* The run saved an indicator and then failed on the next one.
C10_Witness ==
    /\ pc["agg"] = "failed"
    /\ err = "OSError"
    /\ generated # <<>>

====
